---- MODULE Spec2Model ----
(***************************************************************************)
(* Model of the P4Go command session: the result collection                *)
(* (P4GoResults), the output dispatcher (P4GoClientUser), the session      *)
(* facade (P4GoClientApi::Run and friends) and the Go wrapper (P4.Run,     *)
(* P4.SetHandler); the four callback registries with the Set functions     *)
(* and P4.Close; and the resolve negotiation (P4GoClientUser::Resolve,     *)
(* P4GoMergeData).                                                         *)
(***************************************************************************)
EXTENDS Integers, Sequences, FiniteSets, TLC

\* ------------------------------------------------------------------ bounds
MaxEvents == 2      \* output events the engine emits in one command
MaxCmds   == 2      \* accepted commands numbered in one behaviour
MaxHandle == 1      \* distinct native handler addresses
MaxOps    == 3      \* Set calls and Close calls one session makes
MaxInput  == 2      \* strings one SetInput call queues

\* --------------------------------------------------------- program constants
\* P4ResultType (Go) / enum P4GoResultType (native): the same numbering
P4RESULTTYPE_STRING  == 0
P4RESULTTYPE_BINARY  == 1
P4RESULTTYPE_TRACK   == 2
P4RESULTTYPE_DICT    == 3
P4RESULTTYPE_MESSAGE == 4
P4RESULTTYPE_SPEC    == 5

\* Error severities of the P4 API (E_EMPTY .. E_FATAL)
E_EMPTY  == 0
E_INFO   == 1
E_WARN   == 2
E_FAILED == 3
E_FATAL  == 4

\* P4OutputHandlerResult
REPORT  == 0
HANDLED == 1
CANCEL  == 2

\* P4GoClientApi::exceptionLevel, set once in the constructor
exceptionLevel == 2

NULL == 0

Severities == E_EMPTY .. E_FATAL
HandlerResults == {REPORT, HANDLED, CANCEL}
Handles == 1 .. MaxHandle

\* ------------------------------------------------------------------ texts
NL == "\n"
\* "ab": ordinary text
TxtPlain   == <<"a", "b">>
\* "--- a\n--- b\n": two well-formed track lines
TxtTrack2  == <<"-", "-", "-", " ", "a", NL, "-", "-", "-", " ", "b", NL>>
\* "--- a\n\n": one track line, then a malformed fragment
TxtPartial == <<"-", "-", "-", " ", "a", NL, NL>>
\* "--- a": marker, but no terminating newline
TxtNoNl    == <<"-", "-", "-", " ", "a">>
Texts == {TxtPlain, TxtTrack2, TxtPartial, TxtNoNl}

\* -------------------------------------------------------------- spec data
\* class P4GoSpecData: the table the form was parsed into (Dict()) and the
\* extras dictionary, each a set of <<key, value>> pairs.  null marks the
\* null pointer the spec manager returns on failure.
SpecData(dict, extras) == [null |-> FALSE, dict |-> dict, extras |-> extras]
NoSpecData == [dict |-> {}, extras |-> {}]
NullSpec   == [null |-> TRUE, dict |-> {}, extras |-> {}]

\* the fields a form of the schema holds once parsed, and a field the
\* engine announces with extraTag0 that the schema does not have
FormPairs  == {<<"Change", "1">>}
ExtraPairs == {<<"firmerThanParent", "n">>}

\* ------------------------------------------------------------ result model
\* struct P4GoResult: the kind tag and the payload.  cmd/ev identify the
\* engine event that produced the unit, text is the str payload (for a
\* DICT unit: the dict payload, the pairs of the record in order), sev the
\* severity of an Error payload, isnull a null spec pointer, spec the
\* P4GoSpecData the spec pointer leads to.
Unit(type, c, e, text, sev, isnull) ==
    [type |-> type, cmd |-> c, ev |-> e, text |-> text, sev |-> sev,
     isnull |-> isnull, spec |-> NoSpecData]

ZeroCounts ==
    [infoCount |-> 0, warnCount |-> 0, errorCount |-> 0, trackCount |-> 0,
     dictCount |-> 0, specCount |-> 0, stringCount |-> 0]

\* mutant of ResultsReset: the counters are cleared, the units stay
ResultsReset_KeepsUnits(R) == [R EXCEPT !.counts = ZeroCounts]

\* P4GoResults::Reset
ResultsReset(R) == [R EXCEPT !.results = <<>>, !.counts = ZeroCounts]

\* mutant of AddOutputError: Failed and Fatal errors are counted, not stored
AddOutputError_DropsFailures(R, c, e, sev) ==
    IF sev = E_EMPTY THEN R
    ELSE IF sev \in {E_FAILED, E_FATAL}
      THEN [R EXCEPT !.counts = [@ EXCEPT !.errorCount = @ + 1]]
      ELSE [R EXCEPT
              !.results = Append(@, Unit(P4RESULTTYPE_MESSAGE, c, e, <<>>,
                                         sev, FALSE)),
              !.counts  =
                IF sev = E_INFO
                  THEN [@ EXCEPT !.infoCount = @ + 1]
                  ELSE [@ EXCEPT !.warnCount = @ + 1]]

\* P4GoResults::AddOutput( Error* e )
AddOutputError(R, c, e, sev) ==
    IF sev = E_EMPTY THEN R
    ELSE [R EXCEPT
            !.results = Append(@, Unit(P4RESULTTYPE_MESSAGE, c, e, <<>>, sev,
                                       FALSE)),
            !.counts  =
              IF sev = E_INFO
                THEN [@ EXCEPT !.infoCount = @ + 1]
                ELSE IF sev = E_WARN
                  THEN [@ EXCEPT !.warnCount = @ + 1]
                  ELSE [@ EXCEPT !.errorCount = @ + 1]]

\* P4GoResults::AddOutput( StrPtr o, bool binary )
AddOutputStr(R, c, e, o, binary) ==
    [R EXCEPT
       !.results = Append(@, Unit(IF binary THEN P4RESULTTYPE_BINARY
                                            ELSE P4RESULTTYPE_STRING,
                                  c, e, o, E_EMPTY, FALSE)),
       !.counts  = [@ EXCEPT !.stringCount = @ + 1]]

\* P4GoResults::AddOutput( StrDict* d ); the unit holds the record d, its
\* <<variable, value>> pairs in order
AddOutputDict(R, c, e, d) ==
    [R EXCEPT
       !.results = Append(@, Unit(P4RESULTTYPE_DICT, c, e, d, E_EMPTY,
                                  FALSE)),
       !.counts  = [@ EXCEPT !.dictCount = @ + 1]]

\* P4GoResults::AddOutput( P4GoSpecData* s ); s may be a null pointer
AddOutputSpec(R, c, e, s) ==
    [R EXCEPT
       !.results = Append(@, [Unit(P4RESULTTYPE_SPEC, c, e, <<>>, E_EMPTY,
                                   s.null)
                                EXCEPT !.spec = [dict |-> s.dict,
                                                 extras |-> s.extras]]),
       !.counts  = [@ EXCEPT !.specCount = @ + 1]]

\* P4GoResults::AddTrack( StrPtr t )
AddTrack(R, c, e, t) ==
    [R EXCEPT
       !.results = Append(@, Unit(P4RESULTTYPE_TRACK, c, e, t, E_EMPTY,
                                  FALSE)),
       !.counts  = [@ EXCEPT !.trackCount = @ + 1]]

\* The loop of P4GoResults::DeleteTrack: drop units from the tail while the
\* last one is a TRACK.
RECURSIVE DropTrailingTrack(_)
DropTrailingTrack(s) ==
    IF Len(s) = 0 THEN s
    ELSE IF s[Len(s)].type # P4RESULTTYPE_TRACK THEN s
    ELSE DropTrailingTrack(SubSeq(s, 1, Len(s) - 1))

\* P4GoResults::DeleteTrack: the units go, the counters stay.
DeleteTrack(R) == [R EXCEPT !.results = DropTrailingTrack(@)]

\* -------------------------------------------------------- output dispatcher
\* The dispatcher works on U = [results, counts, alive, calls]: the result
\* collection, the alive flag, and the handler methods invoked so far for
\* the event being dispatched.

\* goCallHandle*Function: the native handle is looked up in
\* handler_pointer_map; an unknown handle answers 0 without calling Go code.
goCallHandle(map, ctx, ret) == IF ctx \in map THEN ret ELSE REPORT

\* P4GoClientUser::CallOutputMethod (text/binary, dict and Error overloads):
\* calls the handler method cb, clears alive on 2.
CallOutputMethod(U, map, h, cb, ret) ==
    [U EXCEPT
       !.alive = IF goCallHandle(map, h, ret) = CANCEL THEN FALSE ELSE @,
       !.calls = IF h \in map THEN Append(@, cb) ELSE @]

\* mutant of CallOutputMethodResult: ( ret != 2 )
CallOutputMethodResult_NotCancel(map, h, ret) ==
    goCallHandle(map, h, ret) # CANCEL

\* the value CallOutputMethod returns: ( ret == 0 )
CallOutputMethodResult(map, h, ret) == goCallHandle(map, h, ret) = REPORT

\* P4GoClientUser::ProcessOutput( StrPtr data, bool binary )
ProcessOutputStr(U, map, h, c, e, data, binary, ret) ==
    IF h # NULL
      THEN LET U1 == CallOutputMethod(U, map, h,
                       IF binary THEN "HandleBinary" ELSE "HandleText", ret)
           IN  IF CallOutputMethodResult(map, h, ret)
                 THEN AddOutputStr(U1, c, e, data, binary)
                 ELSE U1
      ELSE AddOutputStr(U, c, e, data, binary)

\* P4GoClientUser::ProcessOutput( StrDict* data )
ProcessOutputDict(U, map, h, c, e, d, ret) ==
    IF h # NULL
      THEN LET U1 == CallOutputMethod(U, map, h, "HandleStat", ret)
           IN  IF CallOutputMethodResult(map, h, ret)
                 THEN AddOutputDict(U1, c, e, d)
                 ELSE U1
      ELSE AddOutputDict(U, c, e, d)

\* mutant of ProcessOutputSpec: the handler is offered the form and takes it
ProcessOutputSpec_AsksHandler(U, h, c, e, s) ==
    IF h # NULL
      THEN [U EXCEPT !.calls = Append(@, "HandleSpec")]
      ELSE AddOutputSpec(U, c, e, s)

\* P4GoClientUser::ProcessOutput( P4GoSpecData* data ) with
\* CallOutputMethod( P4GoSpecData* ): "int ret = 0", the handler is not
\* called, so both branches append.
ProcessOutputSpec(U, h, c, e, s) == AddOutputSpec(U, c, e, s)

\* mutant of ProcessMessage: without a handler the message is not stored
ProcessMessage_NeedsHandler(U, map, h, c, e, sev, ret) ==
    IF h # NULL
      THEN LET U1 == CallOutputMethod(U, map, h, "HandleMessage", ret)
           IN  IF CallOutputMethodResult(map, h, ret)
                 THEN AddOutputError(U1, c, e, sev)
                 ELSE U1
      ELSE U

\* P4GoClientUser::ProcessMessage( Error* e )
ProcessMessage(U, map, h, c, e, sev, ret) ==
    IF h # NULL
      THEN LET U1 == CallOutputMethod(U, map, h, "HandleMessage", ret)
           IN  IF CallOutputMethodResult(map, h, ret)
                 THEN AddOutputError(U1, c, e, sev)
                 ELSE U1
      ELSE AddOutputError(U, c, e, sev)

\* The for loop of P4GoClientUser::OutputText over data[i], i and p being
\* the C (0-based) indices.  ok = FALSE is the "not track data after all"
\* exit.
RECURSIVE TrackScan(_, _, _, _, _, _)
TrackScan(U, c, e, data, i, p) ==
    IF i >= Len(data) THEN [U |-> U, ok |-> TRUE]
    ELSE IF data[i + 1] = NL
      THEN IF i > p
             THEN TrackScan(AddTrack(U, c, e, SubSeq(data, p + 1, i)),
                            c, e, data, i + 1, i + 5)
             ELSE [U |-> U, ok |-> FALSE]
      ELSE TrackScan(U, c, e, data, i + 1, p)

\* the test of OutputText: track && length > 4 && data starts with "--- "
IsTrackText(track, data) ==
    /\ track
    /\ Len(data) > 4
    /\ data[1] = "-" /\ data[2] = "-" /\ data[3] = "-" /\ data[4] = " "

\* P4GoClientUser::OutputText takes the rollback exit for this text
OutputTextRollsBack(U, track, c, e, data) ==
    IsTrackText(track, data) /\ ~TrackScan(U, c, e, data, 4, 4).ok

\* P4GoClientUser::OutputText up to, and not including, the call of
\* results.DeleteTrack() on the rollback exit
OutputTextDispatch(U, map, h, track, c, e, data, ret) ==
    IF IsTrackText(track, data)
      THEN LET scan == TrackScan(U, c, e, data, 4, 4)
           IN  IF scan.ok THEN scan.U
               ELSE ProcessOutputStr(scan.U, map, h, c, e, data, FALSE, ret)
      ELSE ProcessOutputStr(U, map, h, c, e, data, FALSE, ret)

\* P4GoClientUser::OutputText
OutputText(U, map, h, track, c, e, data, ret) ==
    IF OutputTextRollsBack(U, track, c, e, data)
      THEN DeleteTrack(OutputTextDispatch(U, map, h, track, c, e, data, ret))
      ELSE OutputTextDispatch(U, map, h, track, c, e, data, ret)

\* P4GoClientUser::OutputBinary
OutputBinary(U, map, h, c, e, data, ret) ==
    ProcessOutputStr(U, map, h, c, e, data, TRUE, ret)

\* P4GoClientUser::Message / HandleError
Message(U, map, h, c, e, sev, ret) == ProcessMessage(U, map, h, c, e, sev, ret)

\* The shapes of a record handed to OutputStat: which of the variables
\* 'specdef', 'data' and 'specFormatted' it carries, whether parsing the
\* 'data' form fails and whether StrDictToSpec fails and returns a null
\* pointer; extra: the record also carries 'extraTag0', naming a field
\* outside the schema, and that field; vars: the other variables of the
\* record with their values, in order.
StatShapes(varsets) ==
    { v \in [spec : BOOLEAN, data : BOOLEAN, sf : BOOLEAN,
             parseErr : BOOLEAN, convErr : BOOLEAN, extra : BOOLEAN,
             vars : varsets] :
        /\ v.parseErr => (v.spec /\ v.data)
        /\ v.convErr  => (v.spec /\ (v.sf \/ v.data) /\ ~v.parseErr)
        /\ v.extra    => (v.spec /\ v.sf /\ ~v.data /\ ~v.convErr) }

\* records that carry no variable besides those, 'data' being the form
\* that comes with its 'specdef'
StatInputs == {v \in StatShapes({<<>>}) : v.data => v.spec}

\* records of a file: depotFile and rev with the variables above between
\* them
FileVars == <<<<"depotFile", "//depot/foo">>, <<"rev", "1">>>>
RecordInputs == {v \in StatShapes({<<>>, FileVars}) : ~v.extra}

\* the StrDict handed to OutputStat, as its iterator walks it
StatVars(v) ==
    (IF v.vars = <<>> THEN <<>> ELSE <<Head(v.vars)>>)
    \o (IF v.spec THEN <<<<"specdef", "Change;code:201">>>> ELSE <<>>)
    \o <<<<"func", "client-outputStat">>>>
    \o (IF v.data THEN <<<<"data", "Change: 1">>>> ELSE <<>>)
    \o (IF v.sf THEN <<<<"specFormatted", "">>>> ELSE <<>>)
    \o (IF v.vars = <<>> THEN <<>> ELSE Tail(v.vars))

\* mutant of PlainDict: 'func' is copied too
RECURSIVE PlainDict_KeepsFunc(_, _, _)
PlainDict_KeepsFunc(dict, i, ndict) ==
    IF i > Len(dict) THEN ndict
    ELSE IF dict[i][1] \in {"specdef", "specFormatted"}
      THEN PlainDict_KeepsFunc(dict, i + 1, ndict)
    ELSE PlainDict_KeepsFunc(dict, i + 1, Append(ndict, dict[i]))

\* P4GoClientUser::OutputStat, the while loop over the iterator: every
\* variable but 'specdef', 'func' and 'specFormatted' is set in ndict
RECURSIVE PlainDict(_, _, _)
PlainDict(dict, i, ndict) ==
    IF i > Len(dict) THEN ndict
    ELSE IF dict[i][1] \in {"specdef", "func", "specFormatted"}
      THEN PlainDict(dict, i + 1, ndict)
    ELSE PlainDict(dict, i + 1, Append(ndict, dict[i]))

\* the records without extraTag fields
PlainStatInputs == {v \in StatInputs : ~v.extra}

\* P4GoSpecMgr::StrDictToSpec: a null pointer when the specdef or the
\* formatted form does not parse; otherwise the parsed form, with the
\* fields named by extraTag<i> copied into extras
StrDictToSpec(v) ==
    IF v.convErr THEN NullSpec
    ELSE SpecData(FormPairs, IF v.extra THEN ExtraPairs ELSE {})

\* P4GoClientUser::OutputStat, the part that dispatches; the Error of a
\* form that does not parse goes to HandleError
OutputStat(U, map, h, c, e, v, ret) ==
    IF v.spec /\ v.data /\ v.parseErr
      THEN Message(U, map, h, c, e, E_FAILED, ret)
      ELSE IF v.spec /\ (v.sf \/ v.data)
        THEN ProcessOutputSpec(U, h, c, e, StrDictToSpec(v))
        ELSE ProcessOutputDict(U, map, h, c, e,
                               PlainDict(StatVars(v), 1, <<>>), ret)

\* ------------------------------------------------------------ Go wrapper
\* ResultGetKeyPair, called until it returns 0, and the Dictionary (a Go
\* map, which keeps no order) filled from it: the pairs of the table of a
\* SPEC unit (spec->Dict()), the pairs of the record of a DICT unit
ResultGetKeyPair(u) ==
    IF u.type = P4RESULTTYPE_SPEC THEN u.spec.dict
    ELSE IF u.type = P4RESULTTYPE_DICT
      THEN {u.text[i] : i \in DOMAIN u.text}
    ELSE {}

\* P4.Run, the switch on the kind tag: the Go value built for one unit
GoUnit(u) ==
    [gotype |-> IF u.type \in {P4RESULTTYPE_STRING, P4RESULTTYPE_BINARY}
                  THEN "P4Data"
                ELSE IF u.type = P4RESULTTYPE_TRACK THEN "P4Track"
                ELSE IF u.type \in {P4RESULTTYPE_DICT, P4RESULTTYPE_SPEC}
                  THEN "Dictionary"
                ELSE "P4Message",
     cmd |-> u.cmd, ev |-> u.ev,
     text |-> IF u.type = P4RESULTTYPE_DICT THEN <<>> ELSE u.text,
     sev |-> u.sev,
     dict |-> ResultGetKeyPair(u)]

\* P4Data.ResultType, P4Track.ResultType, Dictionary.ResultType and
\* P4Message.ResultType: the kind tag a value of the Go slice reports
ResultType(g) ==
    IF g.gotype = "P4Data" THEN P4RESULTTYPE_STRING
    ELSE IF g.gotype = "P4Track" THEN P4RESULTTYPE_TRACK
    ELSE IF g.gotype = "Dictionary" THEN P4RESULTTYPE_DICT
    ELSE P4RESULTTYPE_MESSAGE

\* P4.Run, the loop over ResultCount/ResultGet: unit i of the native
\* collection becomes element i of the Go slice
GoResults(res) == [i \in 1 .. Len(res) |-> GoUnit(res[i])]

\* ResultGetKeyPair on a SPEC unit dereferences ret->spec
HasNullSpec(res) ==
    \E i \in 1 .. Len(res) :
        res[i].type = P4RESULTTYPE_SPEC /\ res[i].isnull

\* handleCError: an Error without lines is a nil error
NoError == <<>>

\* ---------------------------------------------------------- spec manager
Cmds == {"change"}

\* P4GoSpecMgr::Reset: the cache holds the built-in definitions only
\* (speclist has an entry for "change")
SpecMgrReset == [t \in {"change"} |-> "builtin"]

\* P4GoSpecMgr::AddSpecDef
AddSpecDef(sp, type, specDef) ==
    [t \in (DOMAIN sp) \cup {type} |-> IF t = type THEN specDef ELSE sp[t]]

\* ------------------------------------------------------ callback registry
\* The sessions of the process (P4 values made by New()); Main is the one
\* whose dispatcher and collection the session variables below describe.
Sessions == {"p4a", "p4b"}
Main == "p4a"

\* the four callback roles: progress_pointer_map, handler_pointer_map,
\* ssohandler_pointer_map, resolvehandler_pointer_map
Roles == {"progress", "output", "sso", "resolve"}

\* the order in which P4.Close goes through the handles of the session
CloseOrder == <<"progress", "output", "sso", "resolve">>

\* the handler values a caller passes to the Set functions: nil, or one of
\* the caller's handler objects (owner names the session that passed it)
HandlerObjects == {"h1", "h2"}
NoHandler == [owner |-> "none", obj |-> "nil"]
GoHandler(s, o) == [owner |-> s, obj |-> o]
GoHandlers(s) == {GoHandler(s, o) : o \in HandlerObjects}

\* progressPtrMap / handlerPtrMap / ssoHandlerPtrMap / resolveHandlerPtrMap:
\* Set, Get and Delete, each under the map's lock.  Get of a missing key
\* gives nil.
PtrMapSet(m, k, v) == [a \in DOMAIN m \cup {k} |-> IF a = k THEN v ELSE m[a]]
PtrMapGet(m, k) == IF k \in DOMAIN m THEN m[k] ELSE NoHandler
PtrMapDelete_Keeps(m, k) == m
PtrMapDelete(m, k) == [a \in DOMAIN m \ {k} |-> m[a]]

\* the field of P4 that a Set function clears before it registers the new
\* handle: SetProgress clears progresshandle, SetHandler outputhandle,
\* SetSSOHandler ssohandle, and SetResolveHandler clears outputhandle
ClearedHandle(role) == IF role = "resolve" THEN "output" ELSE role

\* the Set functions whose native setter also sets alive = 1
\* (P4GoClientUser::SetHandler, SetProgress, SetSSOHandler)
SetsAlive(role) == role # "resolve"

\* delete of a native handle: of a live object it releases the address; of
\* an address that is not live (freed before) the behaviour is undefined
IsLive(hp, role, a) == a \in hp[role]
FreeHandle(hp, role, a) == [hp EXCEPT ![role] = @ \ {a}]
NewHandle(hp, role, a) == [hp EXCEPT ![role] = @ \cup {a}]

\* P4.Close: the first role at or after position i whose handle is set
NextToClose(P, i) ==
    LET left == {j \in i .. Len(CloseOrder) : P[CloseOrder[j]] # NULL}
    IN  IF left = {} THEN Len(CloseOrder) + 1
        ELSE CHOOSE j \in left : \A k \in left : j <= k

\* ------------------------------------------------------------ merge data
\* P4MergeStatus
P4MD_QUIT   == 0
P4MD_SKIP   == 1
P4MD_MERGED == 2
P4MD_EDIT   == 3
P4MD_THEIRS == 4
P4MD_YOURS  == 5
MergeStatuses == P4MD_QUIT .. P4MD_YOURS

\* What the engine presents: a ClientMerge (content) or a ClientResolveA
\* (action), with the hint AutoResolve( CMF_FORCE ) gives; for a content
\* resolve the names found in the RPC variables and the files the merger
\* has ("" and absence both stand for: not supplied).
MergeNames == {"", "//depot/foo"}
MergeHints == {P4MD_THEIRS}
MergeCases ==
    [kind : {"content"}, hint : MergeHints,
     yourName : MergeNames, theirName : {"//depot/foo#2"}, baseName : {""},
     yourFile : MergeNames, theirFile : {"/tmp/theirs"}, baseFile : {""},
     resultFile : {"/tmp/result"}]
    \cup
    [kind : {"action"}, hint : MergeHints,
     yourName : MergeNames, theirName : {""}, baseName : {""},
     yourFile : {""}, theirFile : {""}, baseFile : {""}, resultFile : {""}]

\* P4GoMergeData::P4GoMergeData( ClientUser*, ClientMerge*, void* ) and
\* P4GoMergeData::P4GoMergeData( ClientUser*, ClientResolveA*, void* ).
\* The action constructor does not read the RPC variables.
P4GoMergeData(m) ==
    [merger |-> m.kind = "content",
     actionmerger |-> m.kind = "action",
     hint |-> m.hint,
     yours |-> IF m.kind = "content" THEN m.yourName ELSE "",
     theirs |-> IF m.kind = "content" THEN m.theirName ELSE "",
     base |-> IF m.kind = "content" THEN m.baseName ELSE "",
     yourFile |-> m.yourFile, theirFile |-> m.theirFile,
     baseFile |-> m.baseFile, resultFile |-> m.resultFile]

\* P4GoMergeData::GetYourName ... GetResultPath return 0 without a merger
\* or without the value, and C.GoString( nil ) is "".
GetName_Unguarded(md, name) == IF md.merger THEN name ELSE "fault"
GetName(md, name) == IF md.merger /\ name # "" THEN name ELSE ""
GetYourName(md)   == GetName(md, md.yours)
GetTheirName(md)  == GetName(md, md.theirs)
GetBaseName(md)   == GetName(md, md.base)
GetYourPath(md)   == GetName(md, md.yourFile)
GetTheirPath(md)  == GetName(md, md.theirFile)
GetBasePath(md)   == GetName(md, md.baseFile)
GetResultPath(md) == GetName(md, md.resultFile)
GetMergeHint(md)  == md.hint

\* P4GoMergeData::GetActionResolveStatus / GetContentResolveStatus
GetActionResolveStatus_Always(md) == TRUE
GetActionResolveStatus(md)  == md.actionmerger
GetContentResolveStatus(md) == md.merger

\* what a resolve handler sees through the P4MergeData accessors
MergeView(md) ==
    [YourName |-> GetYourName(md), TheirName |-> GetTheirName(md),
     BaseName |-> GetBaseName(md), YourPath |-> GetYourPath(md),
     TheirPath |-> GetTheirPath(md), BasePath |-> GetBasePath(md),
     ResultPath |-> GetResultPath(md), MergeHint |-> GetMergeHint(md),
     IsActionResolve |-> GetActionResolveStatus(md),
     IsContentResolve |-> GetContentResolveStatus(md)]

\* P4GoMergeData::GetMergeAction / GetYoursAction / GetTheirAction /
\* GetType: the diagnostic of the action merger, the null pointer without
\* one.  The diagnostic of accessor f is given the one line f.
ActionAccessors == {"YourAction", "TheirAction", "MergeAction", "ActionType"}
GetAction(md, f) ==
    [null |-> ~md.actionmerger,
     lines |-> IF md.actionmerger THEN <<f>> ELSE <<>>]

\* what a read through a null Error* may give when it does not fault
WildLines == {<<>>, <<"?">>}

\* goCallResolveFunction: the handler registered for ctx answers; without
\* a registration the answer is P4MD_QUIT
goCallResolveFunction_AlwaysQuit(map, ctx, answer) == P4MD_QUIT
goCallResolveFunction(map, ctx, answer) ==
    IF PtrMapGet(map, ctx) # NoHandler THEN answer ELSE P4MD_QUIT

\* ----------------------------------------------------------- queued input
\* the strings a caller queues, and the lists SetInput is called with
InputItems == {"a", "b"}
InputLists == UNION {[1 .. n -> InputItems] : n \in 0 .. MaxInput}

\* P4GoClientUser::ResetInput: input->Clear()
ResetInput(q) == <<>>

\* P4GoClientUser::AppendInput: input->Put()->Set( i )
AppendInput(q, i) == Append(q, i)

\* the loop of P4.SetInput over its arguments, from the k-th on
RECURSIVE AppendInputs(_, _, _)
AppendInputs(q, items, k) ==
    IF k > Len(items) THEN q
    ELSE AppendInputs(AppendInput(q, items[k]), items, k + 1)

\* mutant of InputData: the string handed over stays in the queue
InputData_KeepsHead(q) ==
    [strbuf |-> IF q # <<>> THEN <<q[1]>> ELSE <<>>, input |-> q]

\* P4GoClientUser::InputData: strbuf->Clear(), and with input queued
\* *strbuf = *input->Get( 0 ); input->Remove( 0 ).  strbuf is <<>> when
\* cleared and holds the one string otherwise.
InputData(q) ==
    IF q # <<>>
      THEN [strbuf |-> <<q[1]>>,
            input |-> [i \in 1 .. Len(q) - 1 |-> q[i + 1]]]
      ELSE [strbuf |-> <<>>, input |-> q]

\* ------------------------------------------------------------------ state
VARIABLES
    connected,            \* P4GoClientApi: the S_CONNECTED flag
    dropped,              \* client.Dropped()
    depth,                \* P4GoClientApi::depth
    trackMode,            \* P4GoClientApi: the track-mode flag
    specs,                \* P4GoSpecMgr::specs
    cmd,                  \* P4GoClientUser::cmd
    alive,                \* P4GoClientUser::alive
    track,                \* P4GoClientUser::track
    handler,              \* P4GoClientUser::handler (NULL or a handle)
    results,              \* P4GoResults: the units, in order
    counts,               \* P4GoResults: the seven counters
    outputhandle,         \* P4.outputhandle
    handler_pointer_map,  \* the handles registered in handler_pointer_map
    crashed,              \* the process died on a null dereference
    ret,                  \* what the API call that just returned gave back
    cmdNo,                \* number of the command being run
    nEvents,              \* output events emitted in this command
    log,                  \* the collection as dispatched in this command
    cancelEv,             \* event at which alive was cleared, 0 if none
    last,                 \* the output event just dispatched
    p4,                   \* P4: the four handle fields of every session
    engine,               \* P4GoClientUser: the four handler pointers
    pointer_maps,         \* the four pointer maps of the process
    heap,                 \* the live native handles, by role
    pc,                   \* where each session is in a Set call or Close
    note,                 \* the registry step or callback just taken
    merge,                \* the resolve negotiation just held
    input                 \* P4GoClientUser::input, the queued input

vars == <<connected, dropped, depth, trackMode, specs, cmd, alive, track,
          handler, results, counts, outputhandle, handler_pointer_map,
          crashed, ret, cmdNo, nEvents, log, cancelEv, last, p4, engine,
          pointer_maps, heap, pc, note, merge, input>>

apiVars  == <<connected, dropped, depth, trackMode, specs>>
uiVars   == <<cmd, alive, track, handler, results, counts, input>>
regVars  == <<p4, engine, pointer_maps, heap, pc, note, merge>>
goVars   == <<outputhandle, handler_pointer_map, regVars>>
cmdGhost == <<cmdNo, nEvents, log, cancelEv, last>>

NoRet  == [call |-> "none", results |-> <<>>, err |-> NoError,
           teardown |-> FALSE, arg |-> FALSE, value |-> FALSE]
NoLast == [kind |-> "none", ret |-> REPORT, calls |-> <<>>, sev |-> E_EMPTY,
           data |-> <<>>, stat |-> FALSE]

\* a session that is in no Set call and has made none
Idle == [at |-> "idle", op |-> "none", role |-> "none", h |-> NoHandler,
         p |-> NULL, idx |-> 0, n |-> 0, trace |-> <<>>]
\* no registry step or callback taken yet, and the shape of the record a
\* step leaves
NoNote == [kind |-> "none"]
Noted == [kind |-> "none", s |-> "none", role |-> "none", a |-> NULL,
          got |-> NoHandler, had |-> NoHandler]
\* no resolve negotiation held yet
NoMerge == [held |-> FALSE, calls |-> 0]

\* New() / P4GoClientApi::P4GoClientApi / P4GoClientUser::P4GoClientUser /
\* P4GoResults::P4GoResults / P4GoSpecMgr::P4GoSpecMgr
Init ==
    /\ connected = FALSE
    /\ dropped = FALSE
    /\ depth = 0
    /\ trackMode = FALSE
    /\ specs = SpecMgrReset
    /\ cmd = ""
    /\ alive = TRUE
    /\ track = FALSE
    /\ handler = NULL
    /\ results = <<>>
    /\ counts = ZeroCounts
    /\ outputhandle = NULL
    /\ handler_pointer_map = {}
    /\ crashed = FALSE
    /\ ret = NoRet
    /\ cmdNo = 0
    /\ nEvents = 0
    /\ log = <<>>
    /\ cancelEv = 0
    /\ last = NoLast
    /\ p4 = [s \in Sessions |-> [r \in Roles |-> NULL]]
    /\ engine = [s \in Sessions |-> [r \in Roles |-> NULL]]
    /\ pointer_maps = [r \in Roles |-> <<>>]
    /\ heap = [r \in Roles |-> {}]
    /\ pc = [s \in Sessions |-> Idle]
    /\ note = NoNote
    /\ merge = NoMerge
    /\ input = <<>>

\* mutant of UserReset: alive is left as it was
UserReset_KeepsAlive(U) == ResultsReset(U)

\* P4GoClientUser::Reset: results.Reset(); alive = 1
UserReset(U) == [ResultsReset(U) EXCEPT !.alive = TRUE]

\* the dispatcher's view of the state before an event
UNow == [results |-> results, counts |-> counts, alive |-> alive,
         calls |-> <<>>]

\* ------------------------------------------------------- session facade
\* P4GoClientApi::ConnectOrReconnect: ResetFlags(), client.Init( e ), and
\* SetConnected() when Init succeeded.  ok is the outcome of client.Init.
ConnectOrReconnect(ok, e) ==
    [connected |-> ok,
     dropped   |-> IF ok THEN FALSE ELSE dropped,
     err       |-> IF ok THEN e ELSE e \o <<"init", "P4#connect">>]

\* P4GoClientApi::Disconnect on a connected session: client.Final( e ),
\* ResetFlags(), specMgr.Reset(), ui.Reset().  finalOk is the outcome of
\* client.Final.
Disconnect(U, finalOk, e) ==
    [connected |-> FALSE,
     specs     |-> SpecMgrReset,
     U         |-> UserReset(U),
     err       |-> IF finalOk THEN e ELSE e \o <<"final">>]

\* mutant of NeedsReconnect: the alive flag is not looked at
NeedsReconnect_IgnoresAlive(h, isDropped, isAlive) == h # NULL /\ isDropped

\* P4GoClientApi::Run, the test made after RunCmd returns
NeedsReconnect(h, isDropped, isAlive) == h # NULL /\ isDropped /\ ~isAlive

\* P4.Connect
Connect ==
    /\ ~crashed /\ depth = 0
    /\ IF connected
         THEN /\ ret' = [NoRet EXCEPT !.call = "connect",
                                      !.err = <<"P4#connect">>]
              /\ UNCHANGED <<connected, dropped>>
         ELSE \E ok \in BOOLEAN :
                LET c == ConnectOrReconnect(ok, NoError)
                IN  /\ connected' = c.connected
                    /\ dropped' = c.dropped
                    /\ ret' = [NoRet EXCEPT !.call = "connect", !.err = c.err]
    /\ UNCHANGED <<depth, trackMode, specs, uiVars, goVars, crashed, cmdGhost>>

\* P4.Disconnect
UserDisconnect ==
    /\ ~crashed /\ depth = 0
    /\ IF ~connected
         THEN /\ ret' = [NoRet EXCEPT !.call = "disconnect",
                                      !.err = <<"P4#disconnect">>]
              /\ UNCHANGED <<connected, specs, results, counts, alive>>
         ELSE \E finalOk \in BOOLEAN :
                LET d == Disconnect(UNow, finalOk, NoError)
                IN  /\ connected' = d.connected
                    /\ specs' = d.specs
                    /\ results' = d.U.results
                    /\ counts' = d.U.counts
                    /\ alive' = d.U.alive
                    /\ ret' = [NoRet EXCEPT !.call = "disconnect",
                                            !.err = d.err]
    /\ UNCHANGED <<input, dropped, depth, trackMode, cmd, track, handler, goVars,
                   crashed, cmdGhost>>

\* P4.Connected: a connected session whose connection was dropped is
\* disconnected
Connected ==
    /\ ~crashed /\ depth = 0
    /\ connected /\ dropped
    /\ \E finalOk \in BOOLEAN :
         LET d == Disconnect(UNow, finalOk, NoError)
         IN  /\ connected' = d.connected
             /\ specs' = d.specs
             /\ results' = d.U.results
             /\ counts' = d.U.counts
             /\ alive' = d.U.alive
    /\ ret' = [NoRet EXCEPT !.call = "connected"]
    /\ UNCHANGED <<input, dropped, depth, trackMode, cmd, track, handler, goVars,
                   crashed, cmdGhost>>

\* the engine loses its connection (client.Dropped() becomes true)
Drop ==
    /\ ~crashed
    /\ connected /\ ~dropped
    /\ dropped' = TRUE
    /\ UNCHANGED <<connected, depth, trackMode, specs, uiVars, goVars,
                   crashed, ret, cmdGhost>>

\* mutant of SetTrack: the connection is not tested
SetTrack_WhenConnected(enable) ==
    /\ ~crashed /\ depth = 0
    /\ trackMode' = enable
    /\ track' = enable
    /\ ret' = [NoRet EXCEPT !.call = "settrack", !.arg = enable,
                            !.value = TRUE]
    /\ UNCHANGED <<input, connected, dropped, depth, specs, cmd, alive, handler,
                   results, counts, goVars, crashed, cmdGhost>>

\* P4.SetTrack / P4GoClientApi::SetTrack; ret.value is the bool and
\* ret.err the error P4.SetTrack returns, ret.arg the mode that a call
\* which was carried out had been asked for
SetTrack(enable) ==
    /\ ~crashed /\ depth = 0
    /\ IF connected
         THEN /\ ret' = [NoRet EXCEPT !.call = "settrack",
                                      !.err = <<"P4#track">>]
              /\ UNCHANGED <<trackMode, track>>
         ELSE /\ trackMode' = enable
              /\ track' = enable
              /\ ret' = [NoRet EXCEPT !.call = "settrack", !.arg = enable,
                                      !.value = TRUE]
    /\ UNCHANGED <<input, connected, dropped, depth, specs, cmd, alive, handler,
                   results, counts, goVars, crashed, cmdGhost>>

\* P4.SetHandler( nil ) and P4.SetHandler( handler ); hnew is NULL or the
\* address C.NewHandler() returns (the old handle was freed, so its
\* address may come back)
SetHandler(hnew) ==
    /\ ~crashed /\ depth = 0
    /\ outputhandle' = hnew
    /\ handler_pointer_map' =
         (handler_pointer_map \ {handler}) \cup
         (IF hnew # NULL THEN {hnew} ELSE {})
    /\ handler' = hnew
    /\ alive' = TRUE
    /\ UNCHANGED <<input, apiVars, cmd, track, results, counts, crashed, ret,
                   cmdGhost, regVars>>

\* ------------------------------------------- Set functions and Close
\* P4.SetProgress, P4.SetHandler, P4.SetSSOHandler and P4.SetResolveHandler
\* have the same body; every step below is one call into a pointer map or
\* into the native library, so that the calls of two sessions interleave.
\* pc[s].p is the local p, pc[s].h the handler argument, pc[s].trace the
\* registry and engine calls this call has made.
RegFrame == UNCHANGED <<input, apiVars, cmd, track, handler, results, counts,
                        outputhandle, handler_pointer_map, ret, cmdGhost,
                        merge>>

\* p := C.GetX( p4.handle )
SetCall(s, role, h) ==
    /\ ~crashed /\ pc[s].at = "idle" /\ pc[s].n < MaxOps
    /\ LET p == engine[s][role]
       IN  pc' = [pc EXCEPT ![s] =
                    [at |-> IF p # NULL THEN "delete"
                            ELSE IF h # NoHandler THEN "new" ELSE "install",
                     op |-> "set", role |-> role, h |-> h, p |-> p,
                     idx |-> 0, n |-> pc[s].n + 1, trace |-> <<>>]]
    /\ note' = [Noted  EXCEPT !.kind = "begin", !.s = s, !.role = role]
    /\ UNCHANGED <<p4, engine, pointer_maps, heap, alive, crashed>>
    /\ RegFrame

\* a Set function called between the commands of the session
SetBegin(s, role, h) ==
    /\ s = Main => depth = 0
    /\ SetCall(s, role, h)

SetProgress(s, h)       == SetBegin(s, "progress", h)
SetOutputHandler(s, h)  == SetBegin(s, "output", h)
SetSSOHandler(s, h)     == SetBegin(s, "sso", h)
SetResolveHandler(s, h) == SetBegin(s, "resolve", h)

\* P4.SetProgress called by a callback of the caller while the command of
\* the session is outstanding
SetProgressInCallback(h) ==
    /\ depth = 1
    /\ SetCall(Main, "progress", h)

\* x_pointer_map.Delete( p ), in a Set call and in Close
MapDelete(s) ==
    /\ ~crashed /\ pc[s].at = "delete"
    /\ LET role == pc[s].role
           a == pc[s].p
       IN  /\ pointer_maps' = [pointer_maps EXCEPT
                                 ![role] = PtrMapDelete(@, a)]
           /\ note' = [Noted  EXCEPT !.kind = "delete", !.s = s,
                          !.role = role, !.a = a,
                          !.had = PtrMapGet(pointer_maps[role], a)]
    /\ pc' = [pc EXCEPT ![s].at = "free",
                        ![s].trace = Append(@, "unregister")]
    /\ UNCHANGED <<p4, engine, heap, alive, crashed>>
    /\ RegFrame

\* C.FreeX( p ), in a Set call and in Close.  Deleting a handle that was
\* deleted before is undefined: the process dies or the call returns.
NativeFree(s) ==
    /\ ~crashed /\ pc[s].at = "free"
    /\ LET role == pc[s].role
           a == pc[s].p
       IN  /\ IF IsLive(heap, role, a)
                THEN /\ heap' = FreeHandle(heap, role, a)
                     /\ UNCHANGED crashed
                ELSE /\ UNCHANGED heap
                     /\ crashed' \in BOOLEAN
           /\ note' = [Noted  EXCEPT !.kind = "free", !.s = s,
                          !.role = role, !.a = a,
                          !.got = PtrMapGet(pointer_maps[role], a)]
    /\ pc' = [pc EXCEPT
                ![s].at = IF pc[s].op = "close" THEN "close"
                          ELSE IF pc[s].h # NoHandler THEN "new"
                          ELSE "install",
                ![s].idx = IF pc[s].op = "close" THEN @ + 1 ELSE @,
                ![s].trace = Append(@, "release")]
    /\ UNCHANGED <<p4, engine, pointer_maps, alive>>
    /\ RegFrame

\* p4.xhandle = nil; p4.xhandle = C.NewX(): the allocator returns an
\* address that holds no live handle of the role
NativeNew(s) ==
    /\ ~crashed /\ pc[s].at = "new"
    /\ LET role == pc[s].role
       IN  \E a \in Handles \ heap[role] :
              /\ heap' = NewHandle(heap, role, a)
              /\ p4' = [p4 EXCEPT ![s] =
                          [[@ EXCEPT ![ClearedHandle(role)] = NULL]
                              EXCEPT ![role] = a]]
              /\ note' = [Noted  EXCEPT !.kind = "new", !.s = s,
                             !.role = role, !.a = a]
    /\ pc' = [pc EXCEPT ![s].at = "set"]
    /\ UNCHANGED <<engine, pointer_maps, alive, crashed>>
    /\ RegFrame

\* x_pointer_map.Set( p4.xhandle, &handler )
MapSet(s) ==
    /\ ~crashed /\ pc[s].at = "set"
    /\ LET role == pc[s].role
           a == p4[s][role]
       IN  /\ pointer_maps' = [pointer_maps EXCEPT
                                 ![role] = PtrMapSet(@, a, pc[s].h)]
           /\ note' = [Noted  EXCEPT !.kind = "set", !.s = s,
                          !.role = role, !.a = a, !.got = pc[s].h]
    /\ pc' = [pc EXCEPT ![s].at = "install",
                        ![s].trace = Append(@, "register")]
    /\ UNCHANGED <<p4, engine, heap, alive, crashed>>
    /\ RegFrame

\* C.SetX( p4.handle, p4.xhandle ), or p4.xhandle = nil and
\* C.SetX( p4.handle, nil ); the native setters of the progress, output
\* and SSO roles also set alive = 1
NativeSet(s) ==
    /\ ~crashed /\ pc[s].at = "install"
    /\ LET role == pc[s].role
           P == IF pc[s].h # NoHandler THEN p4[s]
                ELSE [p4[s] EXCEPT ![ClearedHandle(role)] = NULL]
           a == IF pc[s].h # NoHandler THEN P[role] ELSE NULL
       IN  /\ p4' = [p4 EXCEPT ![s] = P]
           /\ engine' = [engine EXCEPT ![s][role] = a]
           /\ alive' = IF s = Main /\ SetsAlive(role) THEN TRUE ELSE alive
           /\ note' = [Noted  EXCEPT !.kind = "install", !.s = s,
                          !.role = role, !.a = a]
    /\ pc' = [pc EXCEPT ![s].at = "idle",
                        ![s].trace = Append(@, "install")]
    /\ UNCHANGED <<pointer_maps, heap, crashed>>
    /\ RegFrame

\* P4.Close, entered
Close(s) ==
    /\ ~crashed /\ pc[s].at = "idle" /\ pc[s].n < MaxOps
    /\ s = Main => depth = 0
    /\ pc' = [pc EXCEPT ![s] =
                [at |-> "close", op |-> "close", role |-> "none",
                 h |-> NoHandler, p |-> NULL, idx |-> 1,
                 n |-> pc[s].n + 1, trace |-> <<>>]]
    /\ note' = [Noted  EXCEPT !.kind = "begin", !.s = s]
    /\ UNCHANGED <<p4, engine, pointer_maps, heap, alive, crashed>>
    /\ RegFrame

\* P4.Close: the next handle field that is not nil is taken up, or, when
\* none is left, C.FreeClientApi( p4.handle ) deletes the session
CloseNext(s) ==
    /\ ~crashed /\ pc[s].at = "close"
    /\ LET i == NextToClose(p4[s], pc[s].idx)
       IN  IF i <= Len(CloseOrder)
             THEN /\ pc' = [pc EXCEPT ![s].at = "delete",
                                      ![s].idx = i,
                                      ![s].role = CloseOrder[i],
                                      ![s].p = p4[s][CloseOrder[i]]]
                  /\ note' = [Noted  EXCEPT !.kind = "next", !.s = s]
                  /\ UNCHANGED engine
             ELSE /\ pc' = [pc EXCEPT ![s].at = "closed"]
                  /\ engine' = [engine EXCEPT ![s] = [r \in Roles |-> NULL]]
                  /\ note' = [Noted  EXCEPT !.kind = "closed", !.s = s]
    /\ UNCHANGED <<p4, pointer_maps, heap, alive, crashed>>
    /\ RegFrame

\* The engine of session s calls back through the handler pointer of a
\* role (goCallProgress...Function, goCallHandle...Function,
\* goCallSSOAuthorizeFunction, goCallResolveFunction): the pointer map is
\* asked for the handler of that handle.  A call through a handle that
\* was deleted is undefined.
Callback(s, role) ==
    /\ ~crashed /\ pc[s].at = "idle"
    /\ engine[s][role] # NULL
    /\ LET ctx == engine[s][role]
       IN  /\ note' = [Noted  EXCEPT !.kind = "callback", !.s = s,
                          !.role = role, !.a = ctx,
                          !.got = PtrMapGet(pointer_maps[role], ctx)]
           /\ crashed' \in (IF IsLive(heap, role, ctx) THEN {FALSE}
                            ELSE BOOLEAN)
    /\ UNCHANGED <<p4, engine, pointer_maps, heap, pc, alive>>
    /\ RegFrame

\* ------------------------------------------------------------ ParseSpec
\* the document types P4.ParseSpec is called with: one the spec manager
\* knows and one it has no definition for
SpecTypes == Cmds \cup {"nosuch"}

\* P4GoSpecMgr::HaveSpecDef
HaveSpecDef(sp, type) == type \in DOMAIN sp

\* P4GoSpecMgr::StringToSpec: a null pointer and the parser's Error when
\* the Spec constructor or ParseNoValid rejects the input (rejected),
\* otherwise the parsed form
StringToSpec(rejected) ==
    IF rejected THEN [spec |-> NullSpec, err |-> <<"parse">>]
    ELSE [spec |-> SpecData(FormPairs, {}), err |-> NoError]

\* P4GoClientApi::ParseSpec: the spec pointer returned and the Error set
\* (exceptionLevel is not 0)
ApiParseSpec(sp, type, rejected) ==
    IF ~HaveSpecDef(sp, type)
      THEN [spec |-> NullSpec,
            err  |-> IF exceptionLevel # 0 THEN <<"No spec definition">>
                                           ELSE NoError]
      ELSE LET p == StringToSpec(rejected)
           IN  IF p.err # NoError
                 THEN [spec |-> NullSpec,
                       err  |-> IF exceptionLevel # 0
                                  THEN <<"P4#parse_spec">> ELSE p.err]
                 ELSE p

\* the Go Dictionary P4.ParseSpec fills from SpecDataGetKeyPair
GoDictionary(pairs) ==
    [gotype |-> "Dictionary", cmd |-> 0, ev |-> 0, text |-> <<>>,
     sev |-> E_EMPTY, dict |-> pairs]

\* P4.ParseSpec: C.ParseSpec, then SpecDataGetKeyPair( s, i, ... ) until
\* it returns 0, with no test of s.  On a null s the call spec->Dict() is
\* undefined: the process dies, or the loop reads no pair and the empty
\* Dictionary is returned with the error.  When the process dies, ret
\* keeps the Error the native call had set.
ParseSpec(type, rejected) ==
    /\ ~crashed /\ depth = 0
    /\ LET p == ApiParseSpec(specs, type, rejected)
       IN  \E dies \in (IF p.spec.null THEN BOOLEAN ELSE {FALSE}) :
             /\ crashed' = dies
             /\ ret' = [NoRet EXCEPT
                          !.call = IF dies THEN "died" ELSE "parsespec",
                          !.results = IF dies THEN <<>>
                                      ELSE <<GoDictionary(p.spec.dict)>>,
                          !.err = p.err]
    /\ UNCHANGED <<apiVars, uiVars, goVars, cmdGhost>>

\* ------------------------------------------------------------------ Run
\* P4.Run after C.Run returned: the native collection is copied into the Go
\* slice and returned with the error.  Reading the key pairs of a SPEC unit
\* whose spec pointer is null is undefined: the process dies, or the read
\* yields no pair.
RunReturns(call, res, e, teardown) ==
    \E dies \in (IF HasNullSpec(res) THEN BOOLEAN ELSE {FALSE}) :
        /\ crashed' = dies
        /\ ret' = IF dies THEN [NoRet EXCEPT !.call = "died"]
                          ELSE [NoRet EXCEPT !.call = call,
                                             !.results = GoResults(res),
                                             !.err = e,
                                             !.teardown = teardown]

\* P4GoClientApi::Run with depth = 0 on a connected session, up to the call
\* of RunCmd: ui.Reset(), ui.SetCommand( cmd ), depth++
RunStart(c) ==
    /\ ~crashed /\ depth = 0 /\ connected
    /\ cmdNo < MaxCmds
    /\ LET U == UserReset(UNow)
       IN  /\ results' = U.results
           /\ counts' = U.counts
           /\ alive' = U.alive
    /\ cmd' = c
    /\ depth' = depth + 1
    /\ cmdNo' = cmdNo + 1
    /\ nEvents' = 0
    /\ log' = <<>>
    /\ cancelEv' = 0
    /\ last' = NoLast
    /\ ret' = NoRet
    /\ UNCHANGED <<input, connected, dropped, trackMode, specs, track, handler,
                   goVars, crashed>>

\* mutant of RunNotConnected: depth++ comes before the connection test and
\* the early return leaves it raised
RunNotConnected_KeepsDepth(c) ==
    /\ ~crashed /\ depth = 0 /\ ~connected
    /\ LET U == UserReset(UNow)
       IN  /\ results' = U.results
           /\ counts' = U.counts
           /\ alive' = U.alive
           /\ RunReturns("notconnected", U.results, <<"P4#run">>, FALSE)
    /\ depth' = depth + 1
    /\ UNCHANGED <<input, connected, dropped, trackMode, specs, cmd, track, handler,
                   goVars, cmdGhost>>

\* P4.Run / P4GoClientApi::Run with depth = 0 on a session that is not
\* connected: ui.Reset(), the error is set (exceptionLevel is not 0), the
\* engine is not called
RunNotConnected(c) ==
    /\ ~crashed /\ depth = 0 /\ ~connected
    /\ LET U == UserReset(UNow)
       IN  /\ results' = U.results
           /\ counts' = U.counts
           /\ alive' = U.alive
           /\ RunReturns("notconnected", U.results,
                         IF exceptionLevel # 0 THEN <<"P4#run">> ELSE NoError,
                         FALSE)
    /\ UNCHANGED <<input, apiVars, cmd, track, handler, goVars, cmdGhost>>

\* mutant of RunNested: ui.Reset() comes before the depth test
RunNested_ResetsFirst(c) ==
    /\ ~crashed /\ depth # 0
    /\ LET U == UserReset(UNow)
       IN  /\ results' = U.results
           /\ counts' = U.counts
           /\ alive' = U.alive
           /\ RunReturns("nested", U.results, <<"nested">>, FALSE)
    /\ UNCHANGED <<input, apiVars, cmd, track, handler, goVars, cmdGhost>>

\* mutant of RunNested: without the depth test the command is entered
RunNested_Enters(c) ==
    /\ ~crashed /\ depth # 0
    /\ depth' = depth + 1
    /\ ret' = NoRet
    /\ UNCHANGED <<connected, dropped, trackMode, specs, uiVars, goVars,
                   crashed, cmdGhost>>

\* P4.Run / P4GoClientApi::Run while a command is outstanding: the depth
\* test comes first and returns
RunNested(c) ==
    /\ ~crashed /\ depth # 0
    /\ RunReturns("nested", results, <<"nested">>, FALSE)
    /\ UNCHANGED <<apiVars, uiVars, goVars, cmdGhost>>

\* P4GoClientApi::Run after RunCmd returned: depth--, the reconnect of a
\* cancelled and dropped session, and the return to P4.Run
RunEnd ==
    /\ ~crashed /\ depth = 1
    /\ depth' = depth - 1
    /\ IF NeedsReconnect(handler, dropped, alive)
         THEN \E finalOk \in BOOLEAN, ok \in BOOLEAN :
                LET d == Disconnect(UNow, finalOk, NoError)
                    c == ConnectOrReconnect(ok, d.err)
                IN  /\ connected' = c.connected
                    /\ dropped' = c.dropped
                    /\ specs' = d.specs
                    /\ results' = d.U.results
                    /\ counts' = d.U.counts
                    /\ alive' = d.U.alive
                    /\ RunReturns("run", d.U.results, c.err, TRUE)
         ELSE /\ RunReturns("run", results, NoError, FALSE)
              /\ UNCHANGED <<connected, dropped, specs, results, counts,
                             alive>>
    /\ nEvents' = 0
    /\ log' = <<>>
    /\ cancelEv' = 0
    /\ last' = NoLast
    /\ UNCHANGED <<input, trackMode, cmd, track, handler, goVars, cmdNo>>

\* ------------------------------------------------ RunSubmit and RunShelve
\* the error value of a Failed or Fatal P4Message joined to run_err
MessageError == <<"P4Message">>

\* mutant of SubmitLoop: only a Fatal Message ends the loop
RECURSIVE SubmitLoop_FatalOnly(_, _, _, _)
SubmitLoop_FatalOnly(raw, run_err, i, result) ==
    IF i > Len(raw) THEN [results |-> result, err |-> run_err]
    ELSE IF raw[i].gotype = "P4Message" /\ raw[i].sev = E_FATAL
      THEN [results |-> <<>>, err |-> run_err \o MessageError]
    ELSE IF raw[i].gotype = "Dictionary"
      THEN SubmitLoop_FatalOnly(raw, run_err, i + 1, Append(result, raw[i]))
    ELSE SubmitLoop_FatalOnly(raw, run_err, i + 1, result)

\* P4.RunSubmit and P4.RunShelve, the loop over raw: the first Failed or
\* Fatal P4Message returns nil and errors.Join( run_err, &v ); every
\* Dictionary is appended to result.  result is declared without a value,
\* so it is nil exactly when it holds no Dictionary: <<>> stands for nil.
RECURSIVE SubmitLoop(_, _, _, _)
SubmitLoop(raw, run_err, i, result) ==
    IF i > Len(raw) THEN [results |-> result, err |-> run_err]
    ELSE IF raw[i].gotype = "P4Message" /\ raw[i].sev \in {E_FAILED, E_FATAL}
      THEN [results |-> <<>>, err |-> run_err \o MessageError]
    ELSE IF raw[i].gotype = "Dictionary"
      THEN SubmitLoop(raw, run_err, i + 1, Append(result, raw[i]))
    ELSE SubmitLoop(raw, run_err, i + 1, result)

\* P4.RunSubmit / P4.RunShelve called without a form, after p4.Run has
\* returned raw and run_err (held in ret): the loop, and the return
RunSubmitReturns ==
    /\ ~crashed
    /\ ret.call \in {"run", "notconnected"}
    /\ LET out == SubmitLoop(ret.results, ret.err, 1, <<>>)
       IN  ret' = [NoRet EXCEPT !.call = "submit", !.results = out.results,
                                !.err = out.err]
    /\ UNCHANGED <<apiVars, uiVars, goVars, crashed, cmdGhost>>

\* ---------------------------------------------------------- output events
\* The engine calls one of the ClientUser output methods; U1 is the
\* dispatcher state after the method.  log follows the collection as the
\* dispatcher builds it during the command.
Dispatched(U1, kind, r, sev, data, stat) ==
    /\ results' = U1.results
    /\ counts' = U1.counts
    /\ alive' = U1.alive
    /\ nEvents' = nEvents + 1
    /\ log' = U1.results
    /\ cancelEv' = IF cancelEv = 0 /\ alive /\ ~U1.alive
                     THEN nEvents + 1 ELSE cancelEv
    /\ last' = [kind |-> kind,
                ret |-> IF U1.calls = <<>> THEN REPORT ELSE r,
                calls |-> U1.calls, sev |-> sev, data |-> data,
                stat |-> stat]
    /\ ret' = NoRet
    /\ UNCHANGED <<input, connected, dropped, depth, trackMode, cmd, track, handler,
                   goVars, crashed, cmdNo>>

Emitting == ~crashed /\ depth = 1 /\ nEvents < MaxEvents

\* P4GoClientUser::Resolve( ClientMerge*, Error* ) and
\* P4GoClientUser::Resolve( ClientResolveA*, int, Error* ), called by the
\* engine during a command.  Without a resolve handler the merger's own
\* Resolve decides (d is what it returns); with one, the merge data is
\* built and P4GoResolveHandler::Resolve calls back into Go, where d is
\* what the caller's handler returns.  A call through a handle that
\* was deleted is undefined.
EvResolve(m, d) ==
    /\ ~crashed /\ depth = 1 /\ pc[Main].at = "idle"
    /\ LET ctx == engine[Main]["resolve"]
           md == P4GoMergeData(m)
           map == pointer_maps["resolve"]
       IN  IF ctx = NULL
             THEN /\ merge' = [held |-> TRUE, case |-> m, calls |-> 0,
                               answer |-> d, decision |-> d]
                  /\ UNCHANGED crashed
             ELSE /\ merge' = [held |-> TRUE, case |-> m,
                               calls |-> IF PtrMapGet(map, ctx) # NoHandler
                                           THEN 1 ELSE 0,
                               answer |-> d,
                               decision |->
                                 goCallResolveFunction(map, ctx, d),
                               view |-> MergeView(md)]
                  /\ crashed' \in (IF IsLive(heap, "resolve", ctx)
                                   THEN {FALSE} ELSE BOOLEAN)
    /\ ret' = NoRet
    /\ UNCHANGED <<apiVars, uiVars, outputhandle, handler_pointer_map,
                   cmdGhost, p4, engine, pointer_maps, heap, pc, note>>

\* P4.SetInput: C.ResetInput, then C.AppendInput for each argument
SetInput(items) ==
    /\ ~crashed
    /\ input' = AppendInputs(ResetInput(input), items, 1)
    /\ ret' = NoRet
    /\ UNCHANGED <<apiVars, cmd, alive, track, handler, results, counts,
                   goVars, crashed, cmdGhost>>

\* the engine asks for input (InputData) or for the answer to a prompt
\* (Prompt, which calls InputData) during a command
EvInput(kind) ==
    /\ ~crashed /\ depth = 1
    /\ LET d == InputData(input)
       IN  /\ input' = d.input
           /\ last' = [NoLast EXCEPT !.kind = kind, !.data = d.strbuf]
    /\ ret' = NoRet
    /\ UNCHANGED <<apiVars, cmd, alive, track, handler, results, counts,
                   goVars, crashed, cmdNo, nEvents, log, cancelEv>>

EvInputData == EvInput("input")
EvPrompt    == EvInput("prompt")

\* P4GoClientUser::Finished, called by the engine when the command is
\* done: input->Clear()
EvFinished ==
    /\ ~crashed /\ depth = 1
    /\ input' = <<>>
    /\ last' = [NoLast EXCEPT !.kind = "finished"]
    /\ ret' = NoRet
    /\ UNCHANGED <<apiVars, cmd, alive, track, handler, results, counts,
                   goVars, crashed, cmdNo, nEvents, log, cancelEv>>

\* P4MergeData.YourAction / TheirAction / MergeAction / ActionType, called
\* by the resolve handler on the merge data it was handed:
\* C.GetErrorSeverity( e ) and C.GetErrorCount( e ) read through e, and the
\* lines are copied.  With e null the reads are undefined: the process
\* faults, or goes on with whatever was read.
ActionAccessor(f) ==
    /\ ~crashed /\ depth = 1 /\ pc[Main].at = "idle"
    /\ merge.held /\ merge.calls = 1 /\ ret.call = "none"
    /\ LET e == GetAction(P4GoMergeData(merge.case), f)
       IN  IF ~e.null
             THEN /\ ret' = [NoRet EXCEPT !.call = f, !.results = e.lines]
                  /\ UNCHANGED crashed
             ELSE \/ /\ crashed' = TRUE
                     /\ ret' = [NoRet EXCEPT !.call = f]
                  \/ /\ \E lines \in WildLines :
                          ret' = [NoRet EXCEPT !.call = f, !.results = lines]
                     /\ UNCHANGED crashed
    /\ UNCHANGED <<apiVars, uiVars, goVars, cmdGhost>>

EvOutputText(data, r) ==
    /\ Emitting
    /\ Dispatched(OutputText(UNow, handler_pointer_map, handler, track,
                             cmdNo, nEvents + 1, data, r),
                  "text", r, E_EMPTY, data, FALSE)
    /\ UNCHANGED specs

EvOutputBinary(data, r) ==
    /\ Emitting
    /\ LET U1 == OutputBinary(UNow, handler_pointer_map, handler, cmdNo,
                              nEvents + 1, data, r)
       IN  Dispatched(U1, "binary", r, E_EMPTY, data, FALSE)
    /\ UNCHANGED specs

EvMessage(sev, r) ==
    /\ Emitting
    /\ LET U1 == Message(UNow, handler_pointer_map, handler, cmdNo,
                         nEvents + 1, sev, r)
       IN  Dispatched(U1, "message", r, sev, <<>>, FALSE)
    /\ UNCHANGED specs

\* OutputStat: the specdef, when present, is saved under the command name
\* before the record is dispatched
EvOutputStat(v, r) ==
    /\ Emitting
    /\ specs' = IF v.spec THEN AddSpecDef(specs, cmd, "server") ELSE specs
    /\ LET U1 == OutputStat(UNow, handler_pointer_map, handler, cmdNo,
                            nEvents + 1, v, r)
       IN  Dispatched(U1, "stat", r, E_EMPTY,
                      IF v.spec /\ (v.sf \/ v.data) THEN <<>>
                      ELSE PlainDict(StatVars(v), 1, <<>>),
                      ~(v.spec /\ (v.sf \/ v.data)))

\* what the handler may answer; without a handler there is no answer and
\* the dispatcher reports
Answers == IF handler # NULL THEN HandlerResults ELSE {REPORT}

Next ==
    \/ Connect
    \/ UserDisconnect
    \/ Connected
    \/ Drop
    \/ \E enable \in BOOLEAN : SetTrack(enable)
    \/ \E hnew \in {NULL} \cup Handles : SetHandler(hnew)
    \/ \E c \in Cmds : RunStart(c)
    \/ \E c \in Cmds : RunNotConnected(c)
    \/ \E c \in Cmds : RunNested(c)
    \/ RunEnd
    \/ \E data \in Texts, r \in Answers : EvOutputText(data, r)
    \/ \E r \in Answers : EvOutputBinary(TxtPlain, r)
    \/ \E sev \in Severities, r \in Answers : EvMessage(sev, r)
    \/ \E v \in PlainStatInputs, r \in Answers : EvOutputStat(v, r)

Spec == Init /\ [][Next]_vars

\* The session as the spec manager sees it: connections, commands whose
\* records carry forms (with and without extraTag fields), and calls of
\* P4.ParseSpec between commands.
SpecMgrNext ==
    \/ Connect
    \/ UserDisconnect
    \/ \E type \in SpecTypes, rejected \in BOOLEAN : ParseSpec(type, rejected)
    \/ \E c \in Cmds : RunStart(c)
    \/ \E c \in Cmds : RunNotConnected(c)
    \/ RunEnd
    \/ \E v \in StatInputs, r \in Answers : EvOutputStat(v, r)

SpecMgrSpec == Init /\ [][SpecMgrNext]_vars

\* A session whose commands are run through RunSubmit or RunShelve: the
\* engine emits messages and records, the handler may swallow or cancel,
\* the connection may drop.
SubmitNext ==
    \/ Connect
    \/ Drop
    \/ \E hnew \in {NULL} \cup Handles : SetHandler(hnew)
    \/ \E c \in Cmds : RunStart(c)
    \/ \E c \in Cmds : RunNotConnected(c)
    \/ RunEnd
    \/ RunSubmitReturns
    \/ \E sev \in Severities, r \in Answers : EvMessage(sev, r)
    \/ \E v \in PlainStatInputs, r \in Answers : EvOutputStat(v, r)

SubmitSpec == Init /\ [][SubmitNext]_vars

\* A session whose commands emit records: plain ones, forms in either
\* shape, forms that do not parse, with and without an output handler.
StatNext ==
    \/ Connect
    \/ \E hnew \in {NULL} \cup Handles : SetHandler(hnew)
    \/ \E c \in Cmds : RunStart(c)
    \/ RunEnd
    \/ \E v \in RecordInputs, r \in Answers : EvOutputStat(v, r)

StatSpec == Init /\ [][StatNext]_vars

\* A session that is connected, dropped and disconnected while commands
\* are run on it: accepted ones, ones issued from a callback of a command
\* that is outstanding, and ones issued without a connection.
DepthNext ==
    \/ Connect
    \/ UserDisconnect
    \/ Drop
    \/ \E hnew \in {NULL} \cup Handles : SetHandler(hnew)
    \/ \E c \in Cmds : RunStart(c)
    \/ \E c \in Cmds : RunNested(c)
    \/ \E c \in Cmds : RunNotConnected(c)
    \/ RunEnd
    \/ \E r \in Answers : EvOutputText(TxtPlain, r)

DepthSpec == Init /\ [][DepthNext]_vars

\* A session whose caller queues input before and during commands, and
\* whose engine asks for input, prompts and reports the end of a command.
InputNext ==
    \/ Connect
    \/ \E c \in Cmds : RunStart(c)
    \/ RunEnd
    \/ \E items \in InputLists : SetInput(items)
    \/ EvInputData
    \/ EvPrompt
    \/ EvFinished

InputSpec == Init /\ [][InputNext]_vars

\* A session whose handler cancels commands and whose callbacks set and
\* clear the progress indicator while the command is outstanding; the
\* engine is inside the callback, and emits nothing, until the Set call
\* has returned.
AliveNext ==
    \/ Connect
    \/ \E hnew \in {NULL} \cup Handles : SetHandler(hnew)
    \/ \E c \in Cmds : RunStart(c)
    \/ pc[Main].at = "idle" /\ RunEnd
    \/ \E r \in Answers : pc[Main].at = "idle" /\ EvOutputText(TxtPlain, r)
    \/ \E h \in {NoHandler, GoHandler(Main, "h1")} : SetProgressInCallback(h)
    \/ MapDelete(Main)
    \/ NativeFree(Main)
    \/ NativeNew(Main)
    \/ MapSet(Main)
    \/ NativeSet(Main)

AliveSpec == Init /\ [][AliveNext]_vars

\* One session and its callback registrations: the four Set functions
\* with nil and with handlers, Close, and the callbacks of the engine.
RegistryNext ==
    \/ \E h \in {NoHandler} \cup GoHandlers(Main) : SetProgress(Main, h)
    \/ \E h \in {NoHandler} \cup GoHandlers(Main) : SetOutputHandler(Main, h)
    \/ \E h \in {NoHandler} \cup GoHandlers(Main) : SetSSOHandler(Main, h)
    \/ \E h \in {NoHandler} \cup GoHandlers(Main) : SetResolveHandler(Main, h)
    \/ MapDelete(Main)
    \/ NativeFree(Main)
    \/ NativeNew(Main)
    \/ MapSet(Main)
    \/ NativeSet(Main)
    \/ Close(Main)
    \/ CloseNext(Main)
    \/ \E role \in Roles : Callback(Main, role)

RegistrySpec == Init /\ [][RegistryNext]_vars

\* A session whose commands need resolves: the resolve handler is set,
\* replaced and cleared between commands, and during a command the engine
\* presents merge cases and emits messages.
ResolveNext ==
    \/ Connect
    \/ \E c \in Cmds : RunStart(c)
    \/ RunEnd
    \/ \E h \in {NoHandler} \cup GoHandlers(Main) : SetResolveHandler(Main, h)
    \/ MapDelete(Main)
    \/ NativeFree(Main)
    \/ NativeNew(Main)
    \/ MapSet(Main)
    \/ NativeSet(Main)
    \/ EvMessage(E_FAILED, REPORT)
    \/ \E m \in MergeCases, d \in MergeStatuses : EvResolve(m, d)

ResolveSpec == Init /\ [][ResolveNext]_vars

\* A session whose resolve handler reads the action diagnostics of the
\* merge data it is handed, for content and for action resolves.
MergeDataNext ==
    \/ Connect
    \/ \E c \in Cmds : RunStart(c)
    \/ RunEnd
    \/ \E h \in {NoHandler} \cup GoHandlers(Main) : SetResolveHandler(Main, h)
    \/ MapDelete(Main)
    \/ NativeFree(Main)
    \/ NativeNew(Main)
    \/ MapSet(Main)
    \/ NativeSet(Main)
    \/ \E m \in MergeCases, d \in {P4MD_QUIT, P4MD_THEIRS} : EvResolve(m, d)
    \/ \E f \in ActionAccessors : ActionAccessor(f)

MergeDataSpec == Init /\ [][MergeDataNext]_vars

\* Two sessions, each driven by its own thread, that set and clear their
\* resolve handlers and close, while their engines call back.
SessionsNext ==
    \/ \E s \in Sessions :
          \E h \in {NoHandler, GoHandler(s, "h1")} : SetResolveHandler(s, h)
    \/ \E s \in Sessions : MapDelete(s)
    \/ \E s \in Sessions : NativeFree(s)
    \/ \E s \in Sessions : NativeNew(s)
    \/ \E s \in Sessions : MapSet(s)
    \/ \E s \in Sessions : NativeSet(s)
    \/ \E s \in Sessions : Close(s)
    \/ \E s \in Sessions : CloseNext(s)
    \/ \E s \in Sessions : Callback(s, "resolve")

SessionsSpec == Init /\ [][SessionsNext]_vars

TypeOK ==
    /\ connected \in BOOLEAN /\ dropped \in BOOLEAN /\ alive \in BOOLEAN
    /\ depth \in 0 .. 1
    /\ handler \in {NULL} \cup Handles
    /\ nEvents \in 0 .. MaxEvents
    /\ cmdNo \in 0 .. MaxCmds

\* ------------------------------------------------------------ properties
\* steps of the behaviour
EventStep  == nEvents' = nEvents + 1
RunEndStep == depth = 1 /\ depth' = 0
RunCalls   == {"run", "nested", "notconnected"}

Range(f) == {f[i] : i \in DOMAIN f}

\* the unit an output event appends when it is reported
ExpectedUnit(l, c, e) ==
    Unit(IF l.kind = "text" THEN P4RESULTTYPE_STRING
         ELSE IF l.kind = "binary" THEN P4RESULTTYPE_BINARY
         ELSE IF l.kind = "message" THEN P4RESULTTYPE_MESSAGE
         ELSE P4RESULTTYPE_DICT,
         c, e, l.data, l.sev, FALSE)

\* the handler method that matches an output event
MatchingCall(l) ==
    IF l.kind = "text" THEN "HandleText"
    ELSE IF l.kind = "binary" THEN "HandleBinary"
    ELSE IF l.kind = "message" THEN "HandleMessage"
    ELSE "HandleStat"

IsFailure(sev) == sev \in {E_FAILED, E_FATAL}

\* C1: the collection Run returns holds exactly the units the dispatcher
\* put into the Result Model during the command, in that order, and the Go
\* slice maps the native collection unit by unit.
C1_RunReturnsDispatchedUnits ==
    [][(RunEndStep /\ ret'.call = "run")
         => /\ ret'.results = GoResults(log)
            /\ Len(ret'.results) = Len(results')]_vars

C3_Events(l) == l.kind \in {"text", "binary", "message"}
                \/ (l.kind = "stat" /\ l.stat)

\* what C3 says of one such event
C3_Contract(l) ==
    /\ l.calls = <<MatchingCall(l)>>
    /\ l.ret = REPORT
         => /\ results' = Append(results, ExpectedUnit(l, cmdNo, nEvents + 1))
            /\ alive' = alive
    /\ l.ret = HANDLED => (results' = results /\ alive' = alive)
    /\ l.ret = CANCEL => (results' = results /\ alive' = FALSE)

\* C3 as claimed: with a handler registered every text, binary, record and
\* message event calls its handler method once and appends its unit exactly
\* when the answer is REPORT.
C3_EveryEventFollowsAnswer ==
    [][(EventStep /\ handler # NULL /\ C3_Events(last'))
         => C3_Contract(last')]_vars

\* C3 as amended: the same, for the events that reach the handler with a
\* unit to append: text that OutputText does not take for track output, and
\* messages whose severity is not Empty.
C3_DispatchedEventFollowsAnswer ==
    [][(EventStep /\ handler # NULL /\ C3_Events(last')
          /\ ~(last'.kind = "text" /\ IsTrackText(track, last'.data))
          /\ ~(last'.kind = "message" /\ last'.sev = E_EMPTY))
         => C3_Contract(last')]_vars

\* C3 witness: the second of two records was answered HANDLED by the stat
\* callback and the collection holds no Record unit.
C3_Witness ==
    /\ handler # NULL /\ nEvents = 2
    /\ last.kind = "stat" /\ last.stat
    /\ last.ret = HANDLED /\ last.calls = <<"HandleStat">>
    /\ \A i \in DOMAIN results : results[i].type # P4RESULTTYPE_DICT

\* C4: after a text event answered CANCEL, a further text event of the same
\* command appends nothing.
C4_NoAppendAfterCancel ==
    [][(EventStep /\ last.kind = "text" /\ last.ret = CANCEL
          /\ last'.kind = "text")
         => results' = results]_vars

\* C5: a cancelled command whose connection was dropped returns the units
\* appended before the cancellation.
C5_CancelledRunReturnsPartial ==
    [][(RunEndStep /\ ret'.call = "run" /\ handler # NULL /\ ~alive
          /\ dropped)
         => \A i \in DOMAIN log :
               log[i].ev < cancelEv => GoUnit(log[i]) \in Range(ret'.results)
      ]_vars

\* a call of P4.Run returned in this step
RunReturnStep == ret' # ret /\ ret'.call \in RunCalls

C7_NestedRunFailsFast ==
    [][(depth # 0 /\ depth' # 0 /\ RunReturnStep)
         => /\ ret'.call = "nested" /\ ret'.err = <<"nested">>
            /\ UNCHANGED <<results, counts, alive, depth, handler,
                           outputhandle, handler_pointer_map, nEvents, last,
                           cmd, cmdNo>>]_vars

\* C7 witness: a nested Run returned while the outstanding command, with a
\* handler registered, had appended a unit and had been cancelled.
C7_Witness ==
    /\ ret.call = "nested" /\ ret.err = <<"nested">>
    /\ depth = 1 /\ handler # NULL /\ ~alive
    /\ Len(results) > 0 /\ ret.results = GoResults(results)

\* C8: a Run on a session that is not connected returns a NotConnected
\* error and an empty collection, with depth 0; the engine emits nothing
\* and no handler is called.
C8_RunNotConnectedFails ==
    [][(depth = 0 /\ ~connected /\ RunReturnStep)
         => /\ ret'.call = "notconnected" /\ ret'.err # NoError
            /\ ret'.results = <<>> /\ results' = <<>>
            /\ depth' = 0
            /\ UNCHANGED <<nEvents, last, cmdNo, connected>>]_vars

\* C8 witness: after an earlier command, a Run on the disconnected session
\* (handler registered) returned the NotConnected error.
C8_Witness ==
    /\ ret.call = "notconnected" /\ ret.err # NoError
    /\ ~connected /\ handler # NULL /\ cmdNo > 0 /\ depth = 0

\* C9: an accepted Run starts from an empty Result Model with all counts
\* zero; the collection, and what Run returns, hold only units of the
\* current command.
C9_NoUnitSurvivesCommand ==
    /\ \A i \in DOMAIN results : results[i].cmd = cmdNo
    /\ (ret.call \in RunCalls)
         => \A i \in DOMAIN ret.results : ret.results[i].cmd = cmdNo
    /\ (depth = 1 /\ nEvents = 0)
         => (results = <<>> /\ counts = ZeroCounts)

\* C9 witness: the second command of the session returned its units.
C9_Witness ==
    /\ cmdNo = 2 /\ ret.call = "run" /\ Len(ret.results) > 0
    /\ \A i \in DOMAIN ret.results : ret.results[i].cmd = 2

\* number of units of the collection that satisfy P
CountUnits(P(_)) == Cardinality({i \in DOMAIN results : P(results[i])})

IsTrackUnit(u)  == u.type = P4RESULTTYPE_TRACK
IsStringUnit(u) == u.type \in {P4RESULTTYPE_STRING, P4RESULTTYPE_BINARY}
IsDictUnit(u)   == u.type = P4RESULTTYPE_DICT
IsSpecUnit(u)   == u.type = P4RESULTTYPE_SPEC
IsInfoUnit(u)   == u.type = P4RESULTTYPE_MESSAGE /\ u.sev = E_INFO
IsWarnUnit(u)   == u.type = P4RESULTTYPE_MESSAGE /\ u.sev = E_WARN
IsErrorUnit(u)  == u.type = P4RESULTTYPE_MESSAGE /\ IsFailure(u.sev)

\* C10: every running count equals the number of units of its kind held in
\* the collection.
C10_CountsMatchUnits ==
    /\ counts.trackCount  = CountUnits(IsTrackUnit)
    /\ counts.stringCount = CountUnits(IsStringUnit)
    /\ counts.dictCount   = CountUnits(IsDictUnit)
    /\ counts.specCount   = CountUnits(IsSpecUnit)
    /\ counts.infoCount   = CountUnits(IsInfoUnit)
    /\ counts.warnCount   = CountUnits(IsWarnUnit)
    /\ counts.errorCount  = CountUnits(IsErrorUnit)

\* ------------------------------------------------ track output, no handler
\* the units of a collection that the event being dispatched appended
UnitsOfEvent(res, c, e) ==
    {i \in DOMAIN res : res[i].cmd = c /\ res[i].ev = e}

\* the step dispatches a text taken as track output
TrackTextStep ==
    EventStep /\ last'.kind = "text" /\ IsTrackText(track, last'.data)

\* the step dispatches a track text whose decomposition fails after at
\* least one Track unit was appended for it
C11_RollbackStep ==
    /\ TrackTextStep
    /\ LET scan == TrackScan(UNow, cmdNo, nEvents + 1, last'.data, 4, 4)
       IN  ~scan.ok /\ Len(scan.U.results) > Len(results)

\* C11: when the decomposition of a track text fails part-way, the whole
\* text is dispatched once as ordinary text (one Text unit when reported)
\* and no Track unit appended for the event remains in the collection.
C11_FallbackLeavesNoTrack ==
    [][C11_RollbackStep
         => /\ handler # NULL => last'.calls = <<"HandleText">>
            /\ last'.ret = REPORT
                 => results' = Append(results,
                                      ExpectedUnit(last', cmdNo, nEvents + 1))
            /\ \A i \in UnitsOfEvent(results', cmdNo, nEvents + 1) :
                 results'[i].type # P4RESULTTYPE_TRACK]_vars

\* C12: a track text with no newline after its last fragment is dispatched
\* as one ordinary Text unit and leaves no Track unit of its own.
C12_UnterminatedTrackIsText ==
    [][(TrackTextStep /\ last'.data[Len(last'.data)] # NL)
         => /\ handler # NULL => last'.calls = <<"HandleText">>
            /\ last'.ret = REPORT
                 => results' = Append(results,
                                      ExpectedUnit(last', cmdNo, nEvents + 1))
            /\ \A i \in UnitsOfEvent(results', cmdNo, nEvents + 1) :
                 results'[i].type # P4RESULTTYPE_TRACK]_vars

\* C13 as claimed: without a handler every output event appends a unit and
\* alive is not cleared.
C13_EveryEventAppends ==
    [][(EventStep /\ handler = NULL)
         => /\ Len(results') > Len(results)
            /\ alive' = alive]_vars

\* the kinds of unit an event of kind k may append
KindTypes(k) ==
    IF k = "text" THEN {P4RESULTTYPE_STRING}
    ELSE IF k = "binary" THEN {P4RESULTTYPE_BINARY}
    ELSE IF k = "message" THEN {P4RESULTTYPE_MESSAGE}
    ELSE {P4RESULTTYPE_DICT, P4RESULTTYPE_SPEC, P4RESULTTYPE_MESSAGE}

\* C13 as amended: without a handler no callback runs, alive is not
\* touched and nothing is removed from the collection; every binary and
\* record event, every message of non-empty severity and every text that
\* is not taken as track output appends exactly one unit of its kind (for
\* a record: a Record, a Spec, or the Failed message of a form that does
\* not parse); a message of severity Empty appends nothing.
C13_NoHandlerReports ==
    [][(EventStep /\ handler = NULL)
         => /\ alive' = alive /\ last'.calls = <<>>
            /\ Len(results') >= Len(results)
            /\ SubSeq(results', 1, Len(results)) = results
            /\ (last'.kind = "message" /\ last'.sev = E_EMPTY)
                 => results' = results
            /\ (~TrackTextStep
                /\ ~(last'.kind = "message" /\ last'.sev = E_EMPTY))
                 => /\ Len(results') = Len(results) + 1
                    /\ results'[Len(results')].type \in KindTypes(last'.kind)
                    /\ results'[Len(results')].ev = nEvents + 1]_vars

\* C13 witness: without a handler a command has had two events reported,
\* the second a Fatal message, and is still alive.
C13_Witness ==
    /\ handler = NULL /\ depth = 1 /\ nEvents = 2 /\ alive
    /\ Len(results) = 2 /\ last.kind = "message" /\ last.sev = E_FATAL
    /\ results[2].type = P4RESULTTYPE_MESSAGE

\* C14: with a handler, every Track unit appended by an event was offered
\* to the track callback, and to no other callback.
C14_TrackOfferedToHandler ==
    [][(EventStep /\ handler # NULL
        /\ \E i \in UnitsOfEvent(results', cmdNo, nEvents + 1) :
             results'[i].type = P4RESULTTYPE_TRACK)
         => /\ last'.calls # <<>>
            /\ \A j \in DOMAIN last'.calls :
                 last'.calls[j] = "HandleTrack"]_vars

\* C15: a record whose schema translation fails leaves the collection as
\* it was, apart from the message that reports a form that does not parse:
\* no Spec unit is appended for the record.
C15_FailedTranslationAppendsNoSpec ==
    [][(EventStep /\ last'.kind = "stat")
         => /\ SubSeq(results', 1, Len(results)) = results
            /\ \A i \in UnitsOfEvent(results', cmdNo, nEvents + 1) :
                 ~(results'[i].type = P4RESULTTYPE_SPEC
                   /\ results'[i].isnull)]_vars

\* --------------------------------------------------------------- ParseSpec
\* a call of P4.ParseSpec ended in this step, by returning or by the death
\* of the process
ParseSpecStep == ret' # ret /\ ret'.call \in {"parsespec", "died"}

\* C16: ParseSpec for a type without schema returns an error and no
\* dictionary, fails in no other way, and leaves the schema table and the
\* Result Model unchanged.
C16_MissingSchemaIsError ==
    [][(ParseSpecStep /\ ret'.err = <<"No spec definition">>)
         => /\ ret'.call = "parsespec" /\ ~crashed'
            /\ ret'.results = <<GoDictionary({})>>
            /\ UNCHANGED <<specs, results, counts>>]_vars

\* C17: ParseSpec of a form the schema parser rejects returns the
\* malformed-document error to its caller.
C17_RejectedFormIsError ==
    [][(ParseSpecStep /\ ret'.err = <<"P4#parse_spec">>)
         => /\ ret'.call = "parsespec" /\ ~crashed'
            /\ ret'.results = <<GoDictionary({})>>]_vars

\* C20: every field announced by extraTagN of a spec record is in the
\* Dictionary that Run delivers for the record.
C20_ExtraTagDelivered ==
    [][(RunEndStep /\ ret'.call = "run" /\ ~ret'.teardown)
         => \A i \in DOMAIN log :
              (log[i].type = P4RESULTTYPE_SPEC /\ ~log[i].isnull)
                => log[i].spec.extras \subseteq ret'.results[i].dict]_vars

\* ------------------------------------------------------ resolve negotiation
\* a step in which the engine presented a merge case
ResolveStep == merge' # merge

NamesAndPaths == {"YourName", "TheirName", "BaseName", "YourPath",
                  "TheirPath", "BasePath", "ResultPath"}

\* what the engine supplied for the value an accessor returns
Supplied(m, f) ==
    CASE f = "YourName"   -> m.yourName
      [] f = "TheirName"  -> m.theirName
      [] f = "BaseName"   -> m.baseName
      [] f = "YourPath"   -> m.yourFile
      [] f = "TheirPath"  -> m.theirFile
      [] f = "BasePath"   -> m.baseFile
      [] f = "ResultPath" -> m.resultFile

\* C22: with a resolve handler installed, a presented merge case makes
\* exactly one call of the handler's Resolve, the value the handler returns
\* (Quit=0 .. AcceptYours=5) is the value handed back to the engine, and
\* the negotiation, whatever the answer and so also for Quit, leaves the
\* collection, its counters and alive as they were.
C22_HandlerDecides ==
    [][(ResolveStep /\ engine[Main]["resolve"] # NULL) =>
          /\ merge'.calls = 1
          /\ merge'.answer \in MergeStatuses
          /\ merge'.decision = merge'.answer
          /\ UNCHANGED <<results, counts, alive>>]_vars

\* C22 witness: during a command whose collection already holds a Failed
\* message, the handler was called once on a content resolve and its Quit
\* went back to the engine.
C22_Witness ==
    /\ merge.held /\ merge.calls = 1 /\ merge.case.kind = "content"
    /\ merge.answer = P4MD_QUIT /\ merge.decision = P4MD_QUIT
    /\ depth = 1 /\ results # <<>> /\ alive

\* C23: a merge case handed to a resolve handler is a content resolve or an
\* action resolve and never both: exactly one of IsContentResolve and
\* IsActionResolve is true.
C23_ContentXorAction ==
    merge.calls = 1 =>
        /\ merge.view.IsContentResolve # merge.view.IsActionResolve
        /\ merge.view.IsContentResolve = (merge.case.kind = "content")

\* C23 witness: the handler was handed an action resolve.
C23_Witness ==
    /\ merge.calls = 1 /\ merge.case.kind = "action"
    /\ merge.view.IsActionResolve /\ ~merge.view.IsContentResolve

\* C24: on an action resolve the seven name and path accessors return the
\* empty string; on a content resolve an accessor whose value the engine
\* did not supply returns the empty string.
C24_AccessorsReturnEmpty ==
    merge.calls = 1 =>
        \A f \in NamesAndPaths :
            /\ merge.case.kind = "action" => merge.view[f] = ""
            /\ (merge.case.kind = "content" /\ Supplied(merge.case, f) = "")
                  => merge.view[f] = ""

\* C24 witness: an action resolve reached the handler while the RPC
\* variables carried a yourName.
C24_Witness ==
    /\ merge.calls = 1 /\ merge.case.kind = "action"
    /\ merge.case.yourName # "" /\ merge.view.YourName = ""

\* ------------------------------------------------------ callback registry
\* the handles of a role that map to a handler passed by session s
RegistrationsOf(s, role) ==
    {a \in Handles : PtrMapGet(pointer_maps[role], a).owner = s}

\* handle a of a role is installed in the engine of a session that is not
\* closed, or a Set call of such a session has registered it and is about
\* to install it
InUse(role, a) ==
    \E s \in Sessions :
        /\ pc[s].at # "closed"
        /\ \/ engine[s][role] = a
           \/ /\ pc[s].op = "set" /\ pc[s].role = role
              /\ pc[s].at = "install" /\ p4[s][role] = a

\* a step of a Set call or of Close made by session s
RegistryStepOf(s) == pc'[s] # pc[s]

\* C25: a handle that is unregistered (its role's handler was replaced or
\* set to nil, or its session was closed) has no entry in its pointer map,
\* so that a lookup gives none and no callback on it reaches the old
\* handler; and when a handle is released it has no entry.
C25_UnregisteredHandleIsGone ==
    /\ \A role \in Roles, a \in Handles :
          PtrMapGet(pointer_maps[role], a) # NoHandler => InUse(role, a)
    /\ note.kind = "free" => note.got = NoHandler

\* C26: after Close of a session, none of the four pointer maps holds a
\* registration made by that session.
C26_CloseLeavesNoRegistration ==
    \A s \in Sessions :
        pc[s].at = "closed" => \A role \in Roles : RegistrationsOf(s, role) = {}

\* C27: a step of a Set call for one role leaves unchanged the pointer
\* maps of the other three roles, the engine's handler pointers of those
\* roles and the session's handle fields of those roles.
C27_OtherRolesUnchanged ==
    [][\A s \in Sessions :
          (RegistryStepOf(s) /\ pc'[s].op = "set") =>
              \A q \in Roles \ {pc'[s].role} :
                  /\ pointer_maps'[q] = pointer_maps[q]
                  /\ engine'[s][q] = engine[s][q]
                  /\ p4'[s][q] = p4[s][q]]_vars

\* the pointer-map and engine calls a Set call makes, in order
ExpectedTrace(p, h) ==
    (IF p # NULL THEN <<"unregister", "release">> ELSE <<>>)
      \o (IF h # NoHandler THEN <<"register", "install">> ELSE <<"install">>)

C29_SessionsIndependent ==
    [][/\ \A s \in Sessions :
            RegistryStepOf(s) =>
               /\ crashed' = crashed
               /\ s # Main => UNCHANGED <<results, counts, alive, depth, specs>>
               /\ \A t \in Sessions \ {s} :
                     /\ p4'[t] = p4[t] /\ engine'[t] = engine[t]
                     /\ pc'[t] = pc[t]
                     /\ \A role \in Roles, a \in Handles :
                           /\ PtrMapGet(pointer_maps[role], a).owner = t
                                 => PtrMapGet(pointer_maps'[role], a)
                                      = PtrMapGet(pointer_maps[role], a)
                           /\ (engine[t][role] = a /\ IsLive(heap, role, a))
                                 => IsLive(heap', role, a)
       /\ note'.kind = "callback" => note'.got.owner \in {note'.s, "none"}]_vars

\* ------------------------------------------------------------- SetTrack
\* a call of P4.SetTrack that has returned
SetTrackStep == ret' # ret /\ ret'.call = "settrack"

\* C30: SetTrack on a connected session returns false with an error and
\* leaves the track mode of the session and of the dispatcher unchanged;
\* on a session that is not connected it sets both to the requested value
\* and returns true without an error.
C30_SetTrackOnlyBeforeConnect ==
    [][SetTrackStep =>
          IF connected
            THEN /\ ~ret'.value /\ ret'.err # NoError
                 /\ UNCHANGED <<trackMode, track>>
            ELSE /\ ret'.value /\ ret'.err = NoError
                 /\ trackMode' = ret'.arg /\ track' = ret'.arg]_vars

\* C30 witness: track mode was switched on before the connect, and a
\* SetTrack on the connected session has failed.
C30_Witness ==
    /\ connected /\ trackMode /\ track
    /\ ret.call = "settrack" /\ ~ret.value /\ ret.err # NoError
\* ------------------------------------------------------------- kind tags
\* C31: every unit of the list a command returns reports the kind tag of
\* the unit the dispatcher stored for its event (Text, Binary, Track,
\* Record, Message or Spec), so that Binary differs from Text and Spec
\* from Record.
C31_UnitCarriesKindTag ==
    [][(RunEndStep /\ ret'.call = "run" /\ ~ret'.teardown)
         => /\ Len(ret'.results) = Len(log)
            /\ \A i \in DOMAIN log :
                  ResultType(ret'.results[i]) = log[i].type]_vars
\* ------------------------------------------------ RunSubmit and RunShelve
SubmitStep == ret.call \in {"run", "notconnected"} /\ ret'.call = "submit"

HasFailure(raw) ==
    \E i \in DOMAIN raw :
        raw[i].gotype = "P4Message" /\ IsFailure(raw[i].sev)

Dictionaries(raw) ==
    SelectSeq(raw, LAMBDA g : g.gotype = "Dictionary")

\* C32 as claimed: RunSubmit returns a nil list with a non-nil error if and
\* only if the results of the command hold a Failed or Fatal Message.
C32_NilListIffFailure ==
    [][SubmitStep
         => ((ret'.results = <<>> /\ ret'.err # NoError)
               <=> HasFailure(ret.results))]_vars

\* C32 as amended: with a Failed or Fatal Message among the results the
\* list is nil and the error is the transport error joined with that
\* Message; without one the list holds the dictionaries of the results in
\* arrival order (nil when there is none) and the error is the transport
\* error, nil or not.
C32_FailureOrDictionaries ==
    [][SubmitStep
         => IF HasFailure(ret.results)
              THEN /\ ret'.results = <<>>
                   /\ ret'.err = ret.err \o MessageError
              ELSE /\ ret'.results = Dictionaries(ret.results)
                   /\ ret'.err = ret.err]_vars

\* C32 witness: RunSubmit returned nil and, as its error, a Failed or Fatal
\* Message of a command whose transport error was nil.
C32_Witness ==
    /\ ret.call = "submit" /\ ret.results = <<>>
    /\ ret.err = MessageError
\* ----------------------------------------------------------- record events
SentinelVars == {"specdef", "func", "specFormatted"}

\* the pairs of a record that are not sentinels, in the record's order
OrdinaryPairs(v) ==
    SelectSeq(StatVars(v), LAMBDA q : q[1] \notin SentinelVars)

IsSpecRecord(v) == v.spec /\ (v.sf \/ v.data)

\* the schema of the current command is replaced when the record carries
\* 'specdef', and no schema changes otherwise
SchemaFollows(v) ==
    /\ DOMAIN specs' = DOMAIN specs \cup (IF v.spec THEN {cmd} ELSE {})
    /\ \A t \in DOMAIN specs' :
          specs'[t] = IF v.spec /\ t = cmd THEN "server" ELSE specs[t]

\* one Spec unit is appended for the record
SpecDispatch ==
    /\ Len(results') = Len(results) + 1
    /\ SubSeq(results', 1, Len(results)) = results
    /\ results'[Len(results')].type = P4RESULTTYPE_SPEC

\* the record goes to the stat callback once, when there is a handler, and
\* on REPORT one Record unit with the ordinary pairs is appended; the
\* Dictionary built from the unit holds those pairs
RecordDispatch(v) ==
    /\ last'.calls = IF handler # NULL THEN <<"HandleStat">> ELSE <<>>
    /\ last'.ret = REPORT
          => /\ results' = Append(results,
                                  Unit(P4RESULTTYPE_DICT, cmdNo, nEvents + 1,
                                       OrdinaryPairs(v), E_EMPTY, FALSE))
             /\ GoUnit(results'[Len(results')]).dict
                   = Range(OrdinaryPairs(v))
    /\ last'.ret # REPORT => results' = results

\* the Failed Message of a form that does not parse goes to the message
\* callback once, when there is a handler, and on REPORT it is appended
ParseFailureDispatch ==
    /\ last'.calls = IF handler # NULL THEN <<"HandleMessage">> ELSE <<>>
    /\ last'.ret = REPORT
          => results' = Append(results,
                               Unit(P4RESULTTYPE_MESSAGE, cmdNo, nEvents + 1,
                                    <<>>, E_FAILED, FALSE))
    /\ last'.ret # REPORT => results' = results

\* C33 as claimed: a record is dispatched once, as a Spec unit if and only
\* if it carries 'specdef' with 'specFormatted' or 'data', otherwise as a
\* Record unit through the stat callback, without the sentinel keys and
\* with its other pairs in order; a 'specdef' replaces the schema of the
\* current command.
C33_RecordIsSpecOrRecord ==
    [][\A v \in RecordInputs, r \in Answers :
          EvOutputStat(v, r)
            => /\ SchemaFollows(v)
               /\ IF IsSpecRecord(v) THEN SpecDispatch
                                      ELSE RecordDispatch(v)]_vars

\* C33 as amended: the same, except that a record whose 'data' form does
\* not parse against its 'specdef' is dispatched as a Failed Message
\* through the message callback and yields neither a Spec nor a Record
\* unit.
C33_RecordIsSpecRecordOrFailure ==
    [][\A v \in RecordInputs, r \in Answers :
          EvOutputStat(v, r)
            => /\ SchemaFollows(v)
               /\ IF v.spec /\ v.data /\ v.parseErr THEN ParseFailureDispatch
                  ELSE IF IsSpecRecord(v) THEN SpecDispatch
                  ELSE RecordDispatch(v)]_vars

\* C33 witness: a record of a file that carried 'func' and 'data' but no
\* 'specdef' was appended as a Record unit holding depotFile, data and
\* rev in that order.
C33_Witness ==
    /\ last.kind = "stat" /\ last.stat /\ results # <<>>
    /\ results[Len(results)].type = P4RESULTTYPE_DICT
    /\ results[Len(results)].text
          = <<FileVars[1], <<"data", "Change: 1">>, FileVars[2]>>
\* -------------------------------------------------------------------- alive
RunStartStep == depth = 0 /\ depth' = 1
InCommand == depth = 1 /\ depth' = 1

\* alive is cleared by an output handler callback that answered CANCEL
ClearedByCancel ==
    /\ alive /\ ~alive'
    /\ EventStep /\ last'.calls # <<>> /\ last'.ret = CANCEL

C35_FallbackKeepsEarlierUnits ==
    [][(/\ TrackTextStep
        /\ ~TrackScan(UNow, cmdNo, nEvents + 1, last'.data, 4, 4).ok)
         => /\ Len(results') >= Len(results)
            /\ SubSeq(results', 1, Len(results)) = results]_vars
\* C36: the Spec unit of a record dispatched as a form is appended with or
\* without an output handler: no handler method is called for it, no
\* answer of the handler keeps it out of the collection, and alive is left
\* as it was.
C36_SpecUnitBypassesHandler ==
    [][\A v \in RecordInputs, r \in HandlerResults :
          (/\ EvOutputStat(v, r)
           /\ IsSpecRecord(v) /\ ~(v.data /\ v.parseErr))
            => /\ SpecDispatch
               /\ last'.calls = <<>>
               /\ alive' = alive]_vars

\* C36 witness: with an output handler registered, the last event of the
\* command was a form and its Spec unit is at the tail of the collection.
C36_Witness ==
    /\ handler # NULL /\ depth = 1 /\ nEvents > 0
    /\ last.kind = "stat" /\ ~last.stat
    /\ results # <<>>
    /\ results[Len(results)].type = P4RESULTTYPE_SPEC
    /\ results[Len(results)].cmd = cmdNo
    /\ results[Len(results)].ev = nEvents
\* -------------------------------------------------- action diagnostics
\* C37: on a content resolve the four action accessors return an empty
\* diagnostic and do not fail.
C37_ActionAccessorsReturnEmpty ==
    [][\A f \in ActionAccessors :
          (ActionAccessor(f) /\ merge.case.kind = "content")
            => ~crashed' /\ ret'.results = <<>>]_vars
\* ------------------------------------------------- lifetime of handles
\* C38: over Set calls followed by Close every native handle made for a
\* handler is released exactly once: no release is of a handle already
\* released, and when Close has returned no handle of the session is left
\* live; and when a Set call returns, the handle the session records for
\* the role is the one installed in the engine for the role.
C38_HandlesReleasedOnce ==
    [][/\ (pc[Main].at = "free" /\ pc'[Main].at # "free")
          => IsLive(heap, pc[Main].role, pc[Main].p)
       /\ (pc[Main].at = "close" /\ pc'[Main].at = "closed")
          => \A role \in Roles : heap'[role] = {}
       /\ (pc[Main].at = "install" /\ pc'[Main].at = "idle")
          => p4'[Main][pc[Main].role] = engine'[Main][pc[Main].role]]_vars
\* ---------------------------------------------------------- command depth
\* C39: the command depth is 0 or 1; it rises only when an accepted
\* command enters the engine and falls only when that command returns, so
\* it is 1 exactly while the engine executes a command (output arrives
\* only then) and 0 otherwise; a Run rejected as nested or as not
\* connected returns with the depth unchanged, and an accepted Run returns
\* with the depth 0 it was called with.
C39_DepthZeroOrOne ==
    [][/\ depth \in {0, 1} /\ depth' \in {0, 1}
       /\ depth' > depth => cmdNo' = cmdNo + 1 /\ ret'.call = "none"
       /\ depth' < depth => ret'.call = "run"
       /\ cmdNo' # cmdNo => depth = 0 /\ depth' = 1
       /\ EventStep => depth = 1 /\ depth' = 1
       /\ (ret'.call = "run" /\ ret' # ret) => depth = 1 /\ depth' = 0
       /\ (ret'.call = "nested" /\ ret' # ret) => depth = 1 /\ depth' = 1
       /\ (ret'.call = "notconnected" /\ ret' # ret)
            => depth = 0 /\ depth' = 0]_vars

\* C39 witness: a Run issued while a command was outstanding has returned
\* as nested, after output of the outstanding command, and the depth is 1.
C39_Witness ==
    depth = 1 /\ nEvents > 0 /\ ret.call = "nested"
\* ----------------------------------------------------------- queued input
\* C40: queued input is consumed first in, first out, each item at most
\* once: SetInput makes the queue its arguments in order; a request of the
\* engine for input or for a prompt removes the head of the queue and
\* returns it, or returns empty when the queue is empty; the start of a
\* command leaves the queue as it is; the queue is emptied when the engine
\* signals that the command has finished.
C40_InputIsFifo ==
    [][/\ \A items \in InputLists : SetInput(items) => input' = items
       /\ (EvInputData \/ EvPrompt)
            => IF input = <<>>
                 THEN last'.data = <<>> /\ input' = <<>>
                 ELSE last'.data = <<Head(input)>> /\ input' = Tail(input)
       /\ (depth = 0 /\ depth' = 1) => input' = input
       /\ EvFinished => input' = <<>>
       /\ Len(input') > Len(input)
            => \E items \in InputLists : SetInput(items)]_vars

\* C40 witness: of the queued "a", "b" the engine has been given "a" for a
\* prompt, and "b" is what is left.
C40_Witness ==
    /\ depth = 1 /\ last.kind = "prompt" /\ last.data = <<"a">>
    /\ input = <<"b">>
====
